---- MODULE Spec2Model ----
(***************************************************************************)
(* State-machine model of the realtime voice bridge in                     *)
(* src/bolt_realtime.py: the inbound-call webhook, the media-stream        *)
(* handler (backend connect with retry, heartbeat, inbound and outbound    *)
(* forwarding loops, tool dispatch), the call-status webhook and the       *)
(* HTTP booking endpoint.                                                  *)
(*                                                                         *)
(* The coroutines of one handler share one asyncio event loop: a step of   *)
(* the model is the code between two await points.  A collaborator call    *)
(* that the code makes synchronously (no await) holds the event loop for   *)
(* its whole duration; the model shows it as the position "collab".        *)
(***************************************************************************)
EXTENDS Integers, Sequences, FiniteSets, TLC

\* ------------------------------------------------------------- bounds
\* telephony events (after "start") the caller side delivers in one call
MaxTwilioMsgs == 2
\* backend events delivered in one call
MaxBackendMsgs == 2
\* speech-started signals the backend delivers in one call
MaxSpeech == 2
\* undelivered messages a socket holds
MaxQueue == 1
\* call-status webhooks delivered for the call
MaxStatus == 2
\* requests to the HTTP booking endpoint
MaxApi == 1
\* seconds the clock runs
MaxClock == 3
\* events the calendar holds
MaxEvents == 2
\* slots asked of get_available_calendar_slots
MaxSlots == 2
\* days of the search horizon
MaxDaysAhead == 2
MaxUtterances == 3
MaxSpelled == 4

\* -------------------------------------------------- program constants
WS_MAX_RETRIES == 3
WS_RETRY_DELAY_BASE == 1
\* the grace window of handle_speech_started_event, in seconds
GRACE_SECONDS == 3
\* operating hours of the slot finders, and their first hour of the next
\* business day
OPEN_HOUR == 9
CLOSE_HOUR == 19
LAST_APPOINTMENT_HOUR == 18
FIRST_HOUR == 10
\* the ceiling on the length of a call, in seconds
MAX_CALL_DURATION == 3600
\* timedelta(hours=1) and timedelta(days=1), in seconds
HOUR == 3600
DAY == 86400

\* ------------------------------------------------------------ values
None == "None"
\* None where the code holds a number otherwise
NoTime == -1
CallSid == "CA1"
\* the From field of the inbound-call webhook
Phones == {"+15550100"}

FunctionNames ==
    {"get_available_slots", "get_next_business_day_slot", "book_appointment",
     "send_trial_link", "take_message", "save_voicemail", "unknown_function"}

\* What the backend puts in the "arguments" field of a function-call event:
\*   missing     the key is absent (the code defaults to the text {})
\*   null        the key holds JSON null (Python None, not a string)
\*   malformed   a string that is not JSON
\*   nonobject   a JSON string whose value is no object (a list, a number)
\*   empty       the object {}
\*   valid       an object with the fields of the tool schema, well typed
\*   wrongtype   an object whose fields hold numbers where strings belong
\*   fieldsnull  an object whose fields hold null
ArgShapes ==
    {"missing", "null", "malformed", "nonobject", "empty", "valid",
     "wrongtype", "fieldsnull"}

ConnectOutcomes == {"ok", "timeout", "error"}

\* the backend events the outbound loop acts on
BackendEvents ==
    {"response.audio.delta",
     "conversation.item.input_audio_transcription.completed",
     "response.function_call_arguments.done",
     "error"}

\* error.code of a backend error event
\* item_id of an audio delta
Items == {"item_1", "item_2"}

ErrorCodes == {"session_expired", "rate_limit_exceeded"}

\* What a collaborator call does: the calendar listing finds a slot, finds
\* none or fails; the SMS send and the transcript-store insert succeed or
\* fail; the calendar insert succeeds, raises, or the calendar library or
\* its credentials are missing.
CalendarListOutcomes == {"slot", "none", "fail"}
SendOutcomes == {"ok", "fail"}
CalendarInsertOutcomes == {"ok", "error", "unavailable"}

\* CallStatus of the call-status webhook
CallStatuses == {"in-progress", "completed"}

VARIABLES
    SESSIONS,          \* the dict call_sid -> session record
    hpc,               \* handle_media_stream: idle, connect, relay, returned
    attemptLog,        \* outcome of each connection attempt made so far
    waitLog,           \* seconds slept before each connection attempt
    openai_ws,         \* pending, None, open, closed_ok, closed_err
    twilio_ws,         \* open, closed
    hbPc,              \* heartbeat task: idle, sleep, done
    inPc,              \* receive_from_twilio: idle, recv, start_create, done
    outPc,             \* send_to_twilio: idle, recv, collab, collab_transcript,
                       \*   send_output, send_create, send_clear, done
    call_sid,          \* handler local
    stream_sid,        \* handler local
    mark_queue,        \* handler local: number of queued marks
    openai_connected,  \* send_to_twilio local
    outExit,           \* why send_to_twilio left its loop
    function_call,     \* the function call being (or last) dispatched
    dispatchSent,      \* messages the dispatcher sent for function_call
    twilioInbox,       \* telephony events not yet read by the handler
    openaiInbox,       \* backend events not yet read by the handler
    toOpenai,          \* messages sent to the backend, in order
    toTwilio,          \* messages sent to telephony, in order
    twPhase,           \* telephony stream: connected, started, stopped
    twMarks,           \* marks the telephony side holds and has not echoed
    nTw, nBk, nCalls,  \* events delivered so far
    nSpeech,           \* speech-started signals delivered so far
    calendarEvents,    \* inserts made in the calendar
    smsCount,          \* trial-link SMS accepted by the SMS sender
    statusLog,         \* what the call-status webhook did, in order
    apiLog,            \* what the HTTP endpoints answered and sent, in order
    latest_media_timestamp,           \* handler local
    last_assistant_item,              \* handler local, None or an item id
    response_start_timestamp_twilio,  \* handler local, NoTime for None
    stream_start_time,                \* handler local, NoTime for None
    now,                              \* time.time(), in seconds
    speechLog,         \* what each speech-started signal met when it was read
    GOOGLE_CALENDAR_AVAILABLE,  \* module flag: the calendar client imported
    wallClock,         \* datetime.now(), seconds since a Monday 00:00:00
    calendar,          \* the events the calendar service holds
    slotCall,          \* the last call of a slot finder and what it returned
    extractSession,    \* the session the extractor works on
    extractCall,       \* the last transcript event or extractor call
    utterances         \* transcripts handled so far

handlerVars == <<hpc, attemptLog, waitLog, openai_ws, hbPc, inPc, outPc,
                 call_sid, stream_sid, mark_queue, openai_connected, outExit,
                 function_call, dispatchSent>>
socketVars == <<twilio_ws, twilioInbox, openaiInbox, toOpenai, toTwilio,
                twPhase, twMarks, nTw, nBk, nCalls, nSpeech>>
serverVars == <<SESSIONS, calendarEvents, smsCount, statusLog, apiLog>>
bargeVars == <<latest_media_timestamp, last_assistant_item,
               response_start_timestamp_twilio, stream_start_time, now,
               speechLog>>
slotVars == <<GOOGLE_CALENDAR_AVAILABLE, wallClock, calendar, slotCall>>
extractVars == <<extractSession, extractCall, utterances>>
vars == <<handlerVars, socketVars, serverVars, bargeVars, slotVars,
          extractVars>>

\* ------------------------------------------------------------ helpers
\* the session fields the extractor reads and writes; <<>> is None, and an
\* absent fragment list is the empty one
NewExtractSession ==
    [customer_email |-> <<>>, customer_name |-> <<>>, business_type |-> <<>>,
     company_name |-> <<>>, email_fragments |-> <<>>,
     company_name_fragments |-> <<>>]

\* no transcript has been handled
NoExtractCall ==
    [event |-> None, role |-> None, text |-> None, is_user_speech |-> FALSE,
     called |-> FALSE]

\* a fresh session that has heard nothing
InitExtractIdle ==
    /\ extractSession = NewExtractSession
    /\ extractCall = NoExtractCall
    /\ utterances = 0

\* no slot finder has been called
NoSlotCall ==
    [fn |-> None, path |-> None, days_ahead |-> 0, num_slots |-> 0,
     existing_events |-> {}, result |-> <<>>]

NoCall == [call_id |-> 0, name |-> None, collab |-> "-", success |-> "-"]

NewSession(from) ==
    [caller_phone |-> from,
     customer_name |-> None,
     customer_email |-> None,
     appointment_datetime |-> None,
     voicemail_mode |-> FALSE,
     voicemail_message |-> None,
     call_failed |-> FALSE]

TwMsg(ev, p) == [event |-> ev, payload |-> p]
BkMsg(t, id) == [type |-> t, id |-> id]

OutMsg_NoPayload(t, x) == [type |-> t, arg |-> 0]

OutMsg(t, x) == [type |-> t, arg |-> x]

RECURSIVE Pow2(_)
Pow2(n) == IF n = 0 THEN 1 ELSE 2 * Pow2(n - 1)

\* retry_delay = WS_RETRY_DELAY_BASE * (2 ** attempt)
RetryDelay(attempt) == WS_RETRY_DELAY_BASE * Pow2(attempt)

\* if attempt > 0: await asyncio.sleep(retry_delay)
SleepBefore(attempt) == IF attempt > 0 THEN RetryDelay(attempt) ELSE 0

RetryExhausted_Late(attempt) == attempt = WS_MAX_RETRIES

\* for attempt in range(max_retries) ... if attempt == max_retries - 1: return None
RetryExhausted(attempt) == attempt = WS_MAX_RETRIES - 1

\* Nothing sent, nothing booked, no webhook served.
InitWorld ==
    /\ twilio_ws = "open"
    /\ twilioInbox = <<>>
    /\ openaiInbox = <<>>
    /\ toOpenai = <<>>
    /\ toTwilio = <<>>
    /\ twPhase = "connected"
    /\ twMarks = 0
    /\ nTw = 0
    /\ nBk = 0
    /\ nCalls = 0
    /\ nSpeech = 0
    /\ calendarEvents = {}
    /\ smsCount = 0
    /\ statusLog = <<>>
    /\ apiLog = <<>>
    /\ latest_media_timestamp = 0
    /\ last_assistant_item = None
    /\ response_start_timestamp_twilio = NoTime
    /\ stream_start_time = NoTime
    /\ now = 0
    /\ speechLog = <<>>

\* No call yet, nothing sent, nothing booked.
InitBridge ==
    /\ SESSIONS = [s \in {} |-> NewSession(None)]
    /\ hpc = "idle"
    /\ attemptLog = <<>>
    /\ waitLog = <<>>
    /\ openai_ws = "pending"
    /\ hbPc = "idle"
    /\ inPc = "idle"
    /\ outPc = "idle"
    /\ call_sid = None
    /\ stream_sid = None
    /\ mark_queue = 0
    /\ openai_connected = TRUE
    /\ outExit = "-"
    /\ function_call = NoCall
    /\ dispatchSent = <<>>
    /\ InitWorld

\* The bridge before its first call, with the calendar client imported, an
\* empty calendar and no slot asked for.
Init ==
    /\ InitBridge
    /\ GOOGLE_CALENDAR_AVAILABLE = TRUE
    /\ wallClock = 0
    /\ calendar = {}
    /\ slotCall = NoSlotCall
    /\ InitExtractIdle

\* The event loop is held by a synchronous collaborator call made from
\* send_to_twilio: nothing else of the process runs until it returns.
LoopBlocked == outPc \in {"collab", "collab_transcript"}

\* -------------------------------------------------- inbound-call webhook
\* handle_incoming_call stores the session; the TwiML it returns makes the
\* telephony side open the media stream, which handle_media_stream accepts.
IncomingCall(from) ==
    /\ hpc = "idle"
    /\ SESSIONS' = (CallSid :> NewSession(from)) @@ SESSIONS
    /\ hpc' = "connect"
    /\ UNCHANGED <<attemptLog, waitLog, openai_ws, hbPc, inPc, outPc, call_sid,
                   stream_sid, mark_queue, openai_connected, outExit,
                   function_call, dispatchSent>>
    /\ UNCHANGED socketVars
    /\ UNCHANGED <<calendarEvents, smsCount, statusLog, apiLog>>
    /\ UNCHANGED <<bargeVars, slotVars, extractVars>>

\* ------------------------------------------- connect_to_openai_with_retry
ConnectAttempt_RelayAnyway(outcome) ==
    LET attempt == Len(attemptLog) IN
    /\ hpc = "connect"
    /\ attemptLog' = Append(attemptLog, outcome)
    /\ waitLog' = Append(waitLog, SleepBefore(attempt))
    /\ IF outcome = "ok" \/ RetryExhausted(attempt)
       THEN /\ openai_ws' = IF outcome = "ok" THEN "open" ELSE None
            /\ hpc' = "relay"
            /\ hbPc' = "sleep"
            /\ inPc' = "recv"
            /\ outPc' = "recv"
       ELSE UNCHANGED <<openai_ws, hpc, hbPc, inPc, outPc>>
    /\ UNCHANGED <<call_sid, stream_sid, mark_queue, openai_connected, outExit,
                   function_call, dispatchSent>>
    /\ UNCHANGED socketVars
    /\ UNCHANGED serverVars
    /\ UNCHANGED <<bargeVars, slotVars, extractVars>>

\* One iteration of the retry loop: the sleep (if any), then one attempt.
\* On success the handler starts the heartbeat task and the two loops.
ConnectAttempt(outcome) ==
    LET attempt == Len(attemptLog) IN
    /\ hpc = "connect"
    /\ attemptLog' = Append(attemptLog, outcome)
    /\ waitLog' = Append(waitLog, SleepBefore(attempt))
    /\ IF outcome = "ok"
       THEN /\ openai_ws' = "open"
            /\ hpc' = "relay"
            /\ hbPc' = "sleep"
            /\ inPc' = "recv"
            /\ outPc' = "recv"
       ELSE IF RetryExhausted(attempt)
       THEN /\ openai_ws' = None
            /\ hpc' = "returned"
            /\ UNCHANGED <<hbPc, inPc, outPc>>
       ELSE UNCHANGED <<openai_ws, hpc, hbPc, inPc, outPc>>
    /\ UNCHANGED <<call_sid, stream_sid, mark_queue, openai_connected, outExit,
                   function_call, dispatchSent>>
    /\ UNCHANGED socketVars
    /\ UNCHANGED serverVars
    /\ UNCHANGED <<bargeVars, slotVars, extractVars>>

\* ------------------------------------------------------- environment
StreamLive == hpc \in {"connect", "relay"}

\* The telephony side delivers a stream event: start, then media and mark
\* echoes, then stop.  The k-th media frame carries payload k.
TwilioSend(ev) ==
    /\ StreamLive
    /\ twilio_ws = "open"
    /\ Len(twilioInbox) < MaxQueue
    /\ \/ /\ ev = "start"
          /\ twPhase = "connected"
          /\ twPhase' = "started"
          /\ twilioInbox' = Append(twilioInbox, TwMsg("start", 0))
          /\ UNCHANGED <<nTw, twMarks>>
       \/ /\ ev = "media"
          /\ twPhase = "started"
          /\ nTw < MaxTwilioMsgs
          /\ nTw' = nTw + 1
          /\ twilioInbox' = Append(twilioInbox, TwMsg("media", nTw + 1))
          /\ UNCHANGED <<twPhase, twMarks>>
       \/ /\ ev = "mark"
          /\ twPhase = "started"
          /\ twMarks > 0
          /\ twMarks' = twMarks - 1
          /\ twilioInbox' = Append(twilioInbox, TwMsg("mark", 0))
          /\ UNCHANGED <<twPhase, nTw>>
       \/ /\ ev = "stop"
          /\ twPhase = "started"
          /\ twPhase' = "stopped"
          /\ twilioInbox' = Append(twilioInbox, TwMsg("stop", 0))
          /\ UNCHANGED <<nTw, twMarks>>
    /\ UNCHANGED <<twilio_ws, openaiInbox, toOpenai, toTwilio, nBk, nCalls,
                   nSpeech>>
    /\ UNCHANGED handlerVars
    /\ UNCHANGED serverVars
    /\ UNCHANGED <<bargeVars, slotVars, extractVars>>

\* The caller side drops the stream without a stop event.
TwilioDisconnect ==
    /\ StreamLive
    /\ twilio_ws = "open"
    /\ twilio_ws' = "closed"
    /\ UNCHANGED <<twilioInbox, openaiInbox, toOpenai, toTwilio, twPhase,
                   twMarks, nTw, nBk, nCalls, nSpeech>>
    /\ UNCHANGED handlerVars
    /\ UNCHANGED serverVars
    /\ UNCHANGED <<bargeVars, slotVars, extractVars>>

\* The backend knows the tools only from the session.update it was sent.
SessionConfigured ==
    \E i \in 1..Len(toOpenai) : toOpenai[i].type = "session.update"

\* A response is under way at the backend only after a response.create, or
\* after audio on which its turn detection (server_vad) can act.
ResponseRequested ==
    \E i \in 1..Len(toOpenai) :
        toOpenai[i].type \in {"response.create", "input_audio_buffer.append"}

\* The caller's speech (its transcript, its start) comes from appended audio.
AudioAppended ==
    \E i \in 1..Len(toOpenai) : toOpenai[i].type = "input_audio_buffer.append"

\* What the backend can emit now: audio deltas and function calls belong to
\* a response, transcripts to appended audio, errors to no particular time.
BackendCanSend(t) ==
    CASE t \in {"response.audio.delta",
                "response.function_call_arguments.done"} -> ResponseRequested
      [] t \in {"conversation.item.input_audio_transcription.completed",
                "input_audio_buffer.speech_started"} -> AudioAppended
      [] OTHER -> TRUE

\* The backend delivers an event.  The k-th audio delta carries delta k and
\* the k-th function call carries call_id k; what else an event holds (the
\* function name and arguments, the error code) is drawn where it is read.
BackendSend(t) ==
    /\ openai_ws = "open"
    /\ SessionConfigured
    /\ BackendCanSend(t)
    /\ Len(openaiInbox) < MaxQueue
    /\ IF t = "input_audio_buffer.speech_started"
       THEN /\ nSpeech < MaxSpeech
            /\ nSpeech' = nSpeech + 1
            /\ openaiInbox' = Append(openaiInbox, BkMsg(t, 0))
            /\ UNCHANGED <<nBk, nCalls>>
       ELSE /\ nBk < MaxBackendMsgs
            /\ nBk' = nBk + 1
            /\ UNCHANGED nSpeech
            /\ IF t = "response.function_call_arguments.done"
               THEN /\ nCalls' = nCalls + 1
                    /\ openaiInbox' = Append(openaiInbox, BkMsg(t, nCalls + 1))
               ELSE /\ UNCHANGED nCalls
                    /\ openaiInbox' = Append(openaiInbox, BkMsg(t, nBk + 1))
    /\ UNCHANGED <<twilio_ws, twilioInbox, toOpenai, toTwilio, twPhase,
                   twMarks, nTw>>
    /\ UNCHANGED handlerVars
    /\ UNCHANGED serverVars
    /\ UNCHANGED <<bargeVars, slotVars, extractVars>>

\* The backend closes its socket: normally (closed_ok) or not (closed_err).
BackendClose(how) ==
    /\ openai_ws = "open"
    /\ openai_ws' = how
    /\ UNCHANGED <<hpc, attemptLog, waitLog, hbPc, inPc, outPc, call_sid,
                   stream_sid, mark_queue, openai_connected, outExit,
                   function_call, dispatchSent>>
    /\ UNCHANGED socketVars
    /\ UNCHANGED serverVars
    /\ UNCHANGED <<bargeVars, slotVars, extractVars>>

\* ------------------------------------------------------------ ws_heartbeat
HeartbeatTick_Closes(pong) ==
    /\ hbPc = "sleep"
    /\ ~LoopBlocked
    /\ hbPc' = IF openai_ws = "open" /\ pong THEN "sleep" ELSE "done"
    /\ openai_ws' = IF openai_ws = "open" /\ ~pong THEN "closed_err"
                    ELSE openai_ws
    /\ UNCHANGED <<hpc, attemptLog, waitLog, inPc, outPc, call_sid,
                   stream_sid, mark_queue, openai_connected, outExit,
                   function_call, dispatchSent>>
    /\ UNCHANGED socketVars
    /\ UNCHANGED serverVars
    /\ UNCHANGED <<bargeVars, slotVars, extractVars>>

\* One round of the heartbeat: sleep, ping, wait for the pong.  A pong keeps
\* the task going; a timeout or a failed ping (closed socket) ends the task.
\* Nothing else is touched.
HeartbeatTick(pong) ==
    /\ hbPc = "sleep"
    /\ ~LoopBlocked
    /\ hbPc' = IF openai_ws = "open" /\ pong THEN "sleep" ELSE "done"
    /\ UNCHANGED <<hpc, attemptLog, waitLog, openai_ws, inPc, outPc, call_sid,
                   stream_sid, mark_queue, openai_connected, outExit,
                   function_call, dispatchSent>>
    /\ UNCHANGED socketVars
    /\ UNCHANGED serverVars
    /\ UNCHANGED <<bargeVars, slotVars, extractVars>>

\* ------------------------------------------------------ receive_from_twilio
\* One iteration of the loop over websocket.iter_text(), up to its next
\* await of a telephony event (or, on start, up to the await between the
\* session.update and the response.create).
InRecv ==
    /\ hpc = "relay"
    /\ inPc = "recv"
    /\ ~LoopBlocked
    /\ UNCHANGED <<hpc, attemptLog, waitLog, hbPc, outPc, openai_connected,
                   outExit, function_call, dispatchSent>>
    /\ UNCHANGED <<twilio_ws, openaiInbox, toTwilio, twPhase, twMarks, nTw,
                   nBk, nCalls, nSpeech>>
    /\ UNCHANGED serverVars
    /\ UNCHANGED <<last_assistant_item, response_start_timestamp_twilio, now,
                   speechLog>>
    /\ UNCHANGED <<slotVars, extractVars>>
    /\ IF twilioInbox = <<>>
       THEN \* WebSocketDisconnect
            /\ twilio_ws = "closed"
            /\ inPc' = "done"
            /\ UNCHANGED <<openai_ws, call_sid, stream_sid, mark_queue,
                           twilioInbox, toOpenai, latest_media_timestamp,
                           stream_start_time>>
       ELSE LET data == Head(twilioInbox) IN
            /\ twilioInbox' = Tail(twilioInbox)
            /\ CASE data.event = "media" ->
                      \* the k-th media frame carries timestamp k
                      /\ latest_media_timestamp' = data.payload
                      /\ UNCHANGED <<openai_ws, call_sid, stream_sid,
                                     mark_queue, stream_start_time>>
                      /\ IF openai_ws = "open"
                         THEN /\ toOpenai' = Append(toOpenai,
                                     OutMsg("input_audio_buffer.append",
                                            data.payload))
                              /\ inPc' = "recv"
                         ELSE \* websockets.exceptions.ConnectionClosed
                              /\ inPc' = "done"
                              /\ UNCHANGED toOpenai
                 [] data.event = "start" ->
                      /\ stream_sid' = "MZ1"
                      /\ call_sid' = CallSid
                      /\ stream_start_time' = now
                      /\ UNCHANGED <<openai_ws, mark_queue,
                                     latest_media_timestamp>>
                      /\ IF openai_ws = "open"
                         THEN /\ toOpenai' = Append(toOpenai,
                                     OutMsg("session.update", 0))
                              /\ inPc' = "start_create"
                         ELSE /\ inPc' = "done"
                              /\ UNCHANGED toOpenai
                 [] data.event = "mark" ->
                      /\ mark_queue' = IF mark_queue > 0 THEN mark_queue - 1
                                       ELSE mark_queue
                      /\ inPc' = "recv"
                      /\ UNCHANGED <<openai_ws, call_sid, stream_sid, toOpenai,
                                     latest_media_timestamp, stream_start_time>>
                 [] data.event = "stop" ->
                      \* await openai_ws.close(); break
                      /\ openai_ws' = IF openai_ws = "open" THEN "closed_ok"
                                      ELSE openai_ws
                      /\ inPc' = "done"
                      /\ UNCHANGED <<call_sid, stream_sid, mark_queue, toOpenai,
                                     latest_media_timestamp, stream_start_time>>

InStartCreate_NoCreate ==
    /\ hpc = "relay"
    /\ inPc = "start_create"
    /\ ~LoopBlocked
    /\ inPc' = IF openai_ws = "open" THEN "recv" ELSE "done"
    /\ UNCHANGED <<hpc, attemptLog, waitLog, openai_ws, hbPc, outPc, call_sid,
                   stream_sid, mark_queue, openai_connected, outExit,
                   function_call, dispatchSent>>
    /\ UNCHANGED socketVars
    /\ UNCHANGED serverVars
    /\ UNCHANGED <<bargeVars, slotVars, extractVars>>

\* The second send of the start branch: response.create for the greeting.
InStartCreate ==
    /\ hpc = "relay"
    /\ inPc = "start_create"
    /\ ~LoopBlocked
    /\ IF openai_ws = "open"
       THEN /\ toOpenai' = Append(toOpenai, OutMsg("response.create", 0))
            /\ inPc' = "recv"
       ELSE /\ inPc' = "done"
            /\ UNCHANGED toOpenai
    /\ UNCHANGED <<hpc, attemptLog, waitLog, openai_ws, hbPc, outPc, call_sid,
                   stream_sid, mark_queue, openai_connected, outExit,
                   function_call, dispatchSent>>
    /\ UNCHANGED <<twilio_ws, twilioInbox, openaiInbox, toTwilio, twPhase,
                   twMarks, nTw, nBk, nCalls, nSpeech>>
    /\ UNCHANGED serverVars
    /\ UNCHANGED <<bargeVars, slotVars, extractVars>>

\* ------------------------------------------------------------ send_to_twilio
\* What send_to_twilio never writes.
outFrame == <<hpc, attemptLog, waitLog, hbPc, inPc, call_sid, stream_sid,
              twilio_ws, twilioInbox, twPhase, nTw, nBk, nCalls, nSpeech,
              statusLog, apiLog>>

OutReady == hpc = "relay" /\ outPc = "recv" /\ openaiInbox # <<>>

\* The iteration over the backend socket ends: silently after a normal
\* close, with ConnectionClosed (the first except branch) otherwise.
OutStreamEnd ==
    /\ hpc = "relay"
    /\ outPc = "recv"
    /\ openaiInbox = <<>>
    /\ openai_ws \in {"closed_ok", "closed_err"}
    /\ outPc' = "done"
    /\ IF openai_ws = "closed_ok"
       THEN /\ outExit' = "stream_end"
            /\ UNCHANGED openai_connected
       ELSE /\ outExit' = "backend_closed"
            /\ openai_connected' = FALSE
    /\ UNCHANGED outFrame
    /\ UNCHANGED <<openai_ws, mark_queue, function_call, dispatchSent,
                   openaiInbox, toOpenai, toTwilio, twMarks, SESSIONS,
                   calendarEvents, smsCount>>
    /\ UNCHANGED <<bargeVars, slotVars, extractVars>>

\* response.audio.delta: one media frame to telephony, the tracking of the
\* item the delta belongs to (item_id), then send_mark.  A send to a
\* telephony socket that has gone raises, and the loop breaks.
OutAudioDelta(item) ==
    /\ OutReady
    /\ Head(openaiInbox).type = "response.audio.delta"
    /\ openaiInbox' = Tail(openaiInbox)
    /\ UNCHANGED <<latest_media_timestamp, stream_start_time, now, speechLog>>
    /\ UNCHANGED <<slotVars, extractVars>>
    /\ IF twilio_ws = "open" /\ item # last_assistant_item
       THEN /\ response_start_timestamp_twilio' = latest_media_timestamp
            /\ last_assistant_item' = item
       ELSE UNCHANGED <<last_assistant_item, response_start_timestamp_twilio>>
    /\ IF twilio_ws = "open"
       THEN /\ toTwilio' =
                 IF stream_sid # None
                 THEN toTwilio \o <<OutMsg("media", Head(openaiInbox).id),
                                    OutMsg("mark", 0)>>
                 ELSE Append(toTwilio,
                             OutMsg("media", Head(openaiInbox).id))
            /\ mark_queue' = IF stream_sid # None THEN mark_queue + 1
                             ELSE mark_queue
            /\ twMarks' = IF stream_sid # None THEN twMarks + 1 ELSE twMarks
            /\ UNCHANGED <<outPc, outExit>>
       ELSE /\ outPc' = "done"
            /\ outExit' = "twilio_send_failed"
            /\ UNCHANGED <<toTwilio, mark_queue, twMarks>>
    /\ UNCHANGED outFrame
    /\ UNCHANGED <<openai_ws, openai_connected, function_call, dispatchSent,
                   toOpenai, SESSIONS, calendarEvents, smsCount>>

\* conversation.item.input_audio_transcription.completed: the transcript is
\* stored (a synchronous insert when the transcript store is configured)
\* and the extractor runs, both inside the loop iteration.
OutTranscript(supabase) ==
    /\ OutReady
    /\ Head(openaiInbox).type =
           "conversation.item.input_audio_transcription.completed"
    /\ openaiInbox' = Tail(openaiInbox)
    /\ outPc' = IF call_sid # None /\ supabase THEN "collab_transcript"
                ELSE "recv"
    /\ UNCHANGED outFrame
    /\ UNCHANGED <<openai_ws, mark_queue, openai_connected, outExit,
                   function_call, dispatchSent, toOpenai, toTwilio, twMarks,
                   SESSIONS, calendarEvents, smsCount>>
    /\ UNCHANGED <<bargeVars, slotVars, extractVars>>

\* update_call_transcript returns (it logs a failed insert and goes on).
OutTranscriptReturn ==
    /\ hpc = "relay"
    /\ outPc = "collab_transcript"
    /\ outPc' = "recv"
    /\ UNCHANGED outFrame
    /\ UNCHANGED <<openai_ws, mark_queue, openai_connected, outExit,
                   function_call, dispatchSent, openaiInbox, toOpenai,
                   toTwilio, twMarks, SESSIONS, calendarEvents, smsCount>>
    /\ UNCHANGED <<bargeVars, slotVars, extractVars>>

\* ------------------------------------------------ handle_speech_started_event
InGraceWindow_Never == FALSE

\* if stream_start_time: ... if time_since_start < 3.0: return
InGraceWindow ==
    stream_start_time # NoTime /\ now - stream_start_time < GRACE_SECONDS

\* if mark_queue and response_start_timestamp_twilio is not None
AudioPlaying == mark_queue > 0 /\ response_start_timestamp_twilio # NoTime

ElapsedTime_Latest == latest_media_timestamp

\* elapsed_time = latest_media_timestamp - response_start_timestamp_twilio
ElapsedTime == latest_media_timestamp - response_start_timestamp_twilio

TruncateMsg(item, ms) ==
    [type |-> "conversation.item.truncate", arg |-> ms, item |-> item]

\* input_audio_buffer.speech_started, up to the first await of the handler:
\* the guard of the grace window, the test for playing audio, and the send
\* of the truncate (which raises ConnectionClosed on a closed backend).
OutSpeechStarted ==
    /\ OutReady
    /\ Head(openaiInbox).type = "input_audio_buffer.speech_started"
    /\ openaiInbox' = Tail(openaiInbox)
    /\ IF InGraceWindow \/ ~AudioPlaying
       THEN UNCHANGED <<outPc, outExit, openai_connected, toOpenai>>
       ELSE IF last_assistant_item = None
       THEN /\ outPc' = "send_clear"
            /\ UNCHANGED <<outExit, openai_connected, toOpenai>>
       ELSE IF openai_ws = "open"
       THEN /\ toOpenai' = Append(toOpenai,
                   TruncateMsg(last_assistant_item, ElapsedTime))
            /\ outPc' = "send_clear"
            /\ UNCHANGED <<outExit, openai_connected>>
       ELSE /\ outPc' = "done"
            /\ outExit' = "backend_closed"
            /\ openai_connected' = FALSE
            /\ UNCHANGED toOpenai
    /\ UNCHANGED outFrame
    /\ UNCHANGED <<openai_ws, mark_queue, function_call, dispatchSent,
                   toTwilio, twMarks, SESSIONS, calendarEvents, smsCount>>
    /\ speechLog' = Append(speechLog,
           [grace |-> InGraceWindow, playing |-> AudioPlaying])
    /\ UNCHANGED <<latest_media_timestamp, last_assistant_item,
                   response_start_timestamp_twilio, stream_start_time, now>>
    /\ UNCHANGED <<slotVars, extractVars>>

OutSendClear_NoReset ==
    /\ hpc = "relay"
    /\ outPc = "send_clear"
    /\ IF twilio_ws = "open"
       THEN /\ toTwilio' = Append(toTwilio, OutMsg("clear", 0))
            /\ outPc' = "recv"
            /\ UNCHANGED <<outExit, openai_connected>>
       ELSE /\ outPc' = "done"
            /\ outExit' = "clear_failed"
            /\ openai_connected' = FALSE
            /\ UNCHANGED toTwilio
    /\ UNCHANGED outFrame
    /\ UNCHANGED <<openai_ws, function_call, dispatchSent, openaiInbox,
                   toOpenai, twMarks, SESSIONS, calendarEvents, smsCount,
                   mark_queue>>
    /\ UNCHANGED <<bargeVars, slotVars, extractVars>>

\* await websocket.send_json(clear), then the reset of the tracking.  A
\* send to a telephony socket that has gone raises into the except branch
\* of send_to_twilio.
OutSendClear ==
    /\ hpc = "relay"
    /\ outPc = "send_clear"
    /\ IF twilio_ws = "open"
       THEN /\ toTwilio' = Append(toTwilio, OutMsg("clear", 0))
            /\ mark_queue' = 0
            /\ last_assistant_item' = None
            /\ response_start_timestamp_twilio' = NoTime
            /\ outPc' = "recv"
            /\ UNCHANGED <<outExit, openai_connected>>
       ELSE /\ outPc' = "done"
            /\ outExit' = "clear_failed"
            /\ openai_connected' = FALSE
            /\ UNCHANGED <<toTwilio, mark_queue, last_assistant_item,
                           response_start_timestamp_twilio>>
    /\ UNCHANGED outFrame
    /\ UNCHANGED <<openai_ws, function_call, dispatchSent, openaiInbox,
                   toOpenai, twMarks, SESSIONS, calendarEvents, smsCount>>
    /\ UNCHANGED <<latest_media_timestamp, stream_start_time, now, speechLog>>
    /\ UNCHANGED <<slotVars, extractVars>>

\* One second passes.
Tick ==
    /\ now < MaxClock
    /\ now' = now + 1
    /\ UNCHANGED <<latest_media_timestamp, last_assistant_item,
                   response_start_timestamp_twilio, stream_start_time,
                   speechLog>>
    /\ UNCHANGED <<slotVars, extractVars>>
    /\ UNCHANGED handlerVars
    /\ UNCHANGED socketVars
    /\ UNCHANGED serverVars

\* Time passes until the stream of the call has lasted MAX_CALL_DURATION
\* seconds.  The handler awaits asyncio.gather on its two loops without a
\* timeout and starts no timer, so the moment itself runs no code of it.
WaitCallDuration ==
    /\ hpc = "relay"
    /\ stream_start_time # NoTime
    /\ now - stream_start_time < MAX_CALL_DURATION
    /\ now' = stream_start_time + MAX_CALL_DURATION
    /\ UNCHANGED <<latest_media_timestamp, last_assistant_item,
                   response_start_timestamp_twilio, stream_start_time,
                   speechLog>>
    /\ UNCHANGED <<slotVars, extractVars>>
    /\ UNCHANGED handlerVars
    /\ UNCHANGED socketVars
    /\ UNCHANGED serverVars

\* error: session_expired breaks the loop, any other code goes on.
OutError(code) ==
    /\ OutReady
    /\ Head(openaiInbox).type = "error"
    /\ openaiInbox' = Tail(openaiInbox)
    /\ IF code = "session_expired"
       THEN outPc' = "done" /\ outExit' = "session_expired"
       ELSE UNCHANGED <<outPc, outExit>>
    /\ UNCHANGED outFrame
    /\ UNCHANGED <<openai_ws, mark_queue, openai_connected, function_call,
                   dispatchSent, toOpenai, toTwilio, twMarks, SESSIONS,
                   calendarEvents, smsCount>>
    /\ UNCHANGED <<bargeVars, slotVars, extractVars>>

\* -------------------------------------------------------- tool dispatch
\* arguments_str = response.get('arguments', '{}'); json.loads of it, with
\* JSONDecodeError (only) turned into {}.
ParseArguments(shape) ==
    CASE shape \in {"missing", "malformed", "empty"} -> "empty"
      [] shape = "null" -> "TypeError"
      [] OTHER -> shape

\* The branches that call arguments.get(...).
ReadsArguments(name) ==
    name \in {"get_available_slots", "book_appointment", "take_message",
              "save_voicemail"}

\* Exceptions of the dispatch, none of which the dispatch catches:
\* json.loads(None); .get on a value that is no dict; message_content[:100]
\* on a number or on None.
DispatchRaises(name, parsed) ==
    \/ parsed = "TypeError"
    \/ ReadsArguments(name) /\ parsed = "nonobject"
    \/ name = "save_voicemail" /\ parsed \in {"wrongtype", "fieldsnull"}

\* slot_datetime and slot_display are both truthy.
BookingFieldsGiven(parsed) == parsed \in {"valid", "wrongtype"}

\* session = SESSIONS.get(call_sid) is a session (not None).
HasSession(sid) == sid \in DOMAIN SESSIONS

\* caller_phone = session.get('caller_phone', '') if session else ''
HasPhone(sid) == HasSession(sid) /\ SESSIONS[sid].caller_phone # None

\* The collaborator a branch calls synchronously, "-" when it calls none.
Collaborator(name, sid, supabase) ==
    CASE name \in {"get_available_slots", "get_next_business_day_slot"} ->
             "calendar"
      [] name = "send_trial_link" /\ HasPhone(sid) -> "sms"
      [] name = "save_voicemail" /\ HasSession(sid) /\ supabase -> "db"
      [] OTHER -> "-"

CollaboratorOutcomes(name) ==
    IF name \in {"get_available_slots", "get_next_business_day_slot"}
    THEN CalendarListOutcomes
    ELSE SendOutcomes

\* What the branch writes to the session before any collaborator call.
SessionAfterDispatch(name, parsed, session) ==
         CASE name = "book_appointment" /\ BookingFieldsGiven(parsed) ->
                  [session EXCEPT !.appointment_datetime =
                       IF parsed = "valid" THEN "2025-11-18T10:00:00"
                       ELSE "nonstring"]
           [] name = "take_message" ->
                  [session EXCEPT !.voicemail_mode = TRUE]
           [] name = "save_voicemail" ->
                  [session EXCEPT
                       !.voicemail_message =
                           IF parsed = "valid" THEN "message" ELSE "",
                       !.customer_name =
                           IF parsed = "valid" THEN "caller_name" ELSE @]
           [] OTHER -> session

\* function_result["success"] of a branch that called no collaborator:
\* "none" when function_result stays None.
DirectSuccess(name, parsed, sid) ==
    CASE name = "book_appointment" ->
             IF BookingFieldsGiven(parsed) /\ HasSession(sid) THEN "true"
             ELSE "false"
      [] name = "send_trial_link" -> "false"
      [] name \in {"take_message", "save_voicemail"} -> "true"
      [] OTHER -> "none"

\* function_result["success"] after the collaborator returned: the two
\* slot results carry no success key at all ("absent").
CollabSuccess(name, outcome) ==
    CASE name \in {"get_available_slots", "get_next_business_day_slot"} ->
             "absent"
      [] name = "send_trial_link" -> IF outcome = "ok" THEN "true" ELSE "false"
      [] OTHER -> "true"

\* response.function_call_arguments.done, up to the collaborator call of
\* the branch or, when it calls none, up to the first send of the result.
OutFunctionCall(name, arguments, supabase) ==
    LET msg == [call_id |-> Head(openaiInbox).id, name |-> name]
        parsed == ParseArguments(arguments)
        collab == Collaborator(name, call_sid, supabase)
        direct == DirectSuccess(name, parsed, call_sid)
    IN
    /\ OutReady
    /\ Head(openaiInbox).type = "response.function_call_arguments.done"
    /\ openaiInbox' = Tail(openaiInbox)
    /\ dispatchSent' = <<>>
    /\ IF DispatchRaises(msg.name, parsed)
       THEN \* except Exception: the loop is left
            /\ function_call' = [call_id |-> msg.call_id, name |-> msg.name,
                                 collab |-> "-", success |-> "-"]
            /\ outPc' = "done"
            /\ outExit' = "dispatch_error"
            /\ openai_connected' = FALSE
            /\ UNCHANGED SESSIONS
       ELSE /\ UNCHANGED <<outExit, openai_connected>>
            /\ SESSIONS' =
                   IF HasSession(call_sid)
                   THEN [SESSIONS EXCEPT ![call_sid] =
                            SessionAfterDispatch(msg.name, parsed, @)]
                   ELSE SESSIONS
            /\ IF collab # "-"
               THEN /\ function_call' =
                           [call_id |-> msg.call_id, name |-> msg.name,
                            collab |-> "calling", success |-> "-"]
                    /\ outPc' = "collab"
               ELSE /\ function_call' =
                           [call_id |-> msg.call_id, name |-> msg.name,
                            collab |-> "-", success |-> direct]
                    /\ outPc' = IF direct = "none" THEN "recv"
                                ELSE "send_output"
    /\ UNCHANGED outFrame
    /\ UNCHANGED <<openai_ws, mark_queue, toOpenai, toTwilio, twMarks,
                   calendarEvents, smsCount>>
    /\ UNCHANGED <<bargeVars, slotVars, extractVars>>

\* The synchronous collaborator call returns; function_result is built.
OutCollabReturn(outcome) ==
    /\ hpc = "relay"
    /\ outPc = "collab"
    /\ outcome \in CollaboratorOutcomes(function_call.name)
    /\ function_call' =
           [function_call EXCEPT
                !.collab = outcome,
                !.success = CollabSuccess(function_call.name, outcome)]
    /\ smsCount' = IF function_call.name = "send_trial_link" /\ outcome = "ok"
                   THEN smsCount + 1 ELSE smsCount
    /\ outPc' = "send_output"
    /\ UNCHANGED outFrame
    /\ UNCHANGED <<openai_ws, mark_queue, openai_connected, outExit,
                   dispatchSent, openaiInbox, toOpenai, toTwilio, twMarks,
                   SESSIONS, calendarEvents>>
    /\ UNCHANGED <<bargeVars, slotVars, extractVars>>

\* await openai_ws.send(function_call_output); on a closed socket the send
\* raises ConnectionClosed and the loop is left.
OutSendOutput ==
    /\ hpc = "relay"
    /\ outPc = "send_output"
    /\ IF openai_ws = "open"
       THEN /\ toOpenai' = Append(toOpenai,
                   OutMsg("function_call_output", function_call.call_id))
            /\ dispatchSent' = Append(dispatchSent,
                   OutMsg("function_call_output", function_call.call_id))
            /\ outPc' = "send_create"
            /\ UNCHANGED <<outExit, openai_connected>>
       ELSE /\ outPc' = "done"
            /\ outExit' = "backend_closed"
            /\ openai_connected' = FALSE
            /\ UNCHANGED <<toOpenai, dispatchSent>>
    /\ UNCHANGED outFrame
    /\ UNCHANGED <<openai_ws, mark_queue, function_call, openaiInbox,
                   toTwilio, twMarks, SESSIONS, calendarEvents, smsCount>>
    /\ UNCHANGED <<bargeVars, slotVars, extractVars>>

\* await openai_ws.send(response.create)
OutSendCreate ==
    /\ hpc = "relay"
    /\ outPc = "send_create"
    /\ IF openai_ws = "open"
       THEN /\ toOpenai' = Append(toOpenai, OutMsg("response.create", 0))
            /\ dispatchSent' = Append(dispatchSent,
                   OutMsg("response.create", 0))
            /\ outPc' = "recv"
            \* the locals of the branch are dead once the iteration ends
            /\ function_call' = [NoCall EXCEPT !.call_id = function_call.call_id]
            /\ UNCHANGED <<outExit, openai_connected>>
       ELSE /\ outPc' = "done"
            /\ outExit' = "backend_closed"
            /\ openai_connected' = FALSE
            /\ UNCHANGED <<toOpenai, dispatchSent, function_call>>
    /\ UNCHANGED outFrame
    /\ UNCHANGED <<openai_ws, mark_queue, openaiInbox,
                   toTwilio, twMarks, SESSIONS, calendarEvents, smsCount>>
    /\ UNCHANGED <<bargeVars, slotVars, extractVars>>

\* asyncio.gather returns when both loops have ended; the finally block
\* closes the backend socket.  The heartbeat task is not cancelled.  Both
\* loops catch Exception themselves, so gather does not raise and the except
\* branch that would set call_failed on the session is not taken.
HandlerFinally ==
    /\ hpc = "relay"
    /\ inPc = "done"
    /\ outPc = "done"
    /\ hpc' = "returned"
    /\ openai_ws' = IF openai_ws = "open" THEN "closed_ok" ELSE openai_ws
    /\ UNCHANGED <<attemptLog, waitLog, hbPc, inPc, outPc, call_sid,
                   stream_sid, mark_queue, openai_connected, outExit,
                   function_call, dispatchSent>>
    /\ UNCHANGED socketVars
    /\ UNCHANGED serverVars
    /\ UNCHANGED <<bargeVars, slotVars, extractVars>>

\* ---------------------------------------------------------- status_callback
\* The insert of book_calendar_appointment succeeds only for a well-formed
\* slot and a calendar that accepts it.
InsertSucceeds(slot, cal) == cal = "ok" /\ slot = "2025-11-18T10:00:00"

\* What book_calendar_appointment returns: the dict with its success flag,
\* or the bare False of its two early returns.
BookingResult(slot, cal) ==
    IF cal = "unavailable" THEN "False"
    ELSE IF InsertSucceeds(slot, cal) THEN "success" ELSE "failure"

FinalizationActions_SummaryFirst(session, result) ==
    <<"summary">>
    \o (IF session.appointment_datetime # None THEN <<"calendar">> ELSE <<>>)
    \o (IF session.customer_email # None THEN <<"follow_up">> ELSE <<>>)

\* What the completed webhook does for a stored, non-failed session, in
\* the order of the code: the calendar write when a slot was recorded
\* (booking_result['success'] on the bare False raises, and the handler
\* ends there), the follow-up to the caller when an email is stored, the
\* summary to the operator.  For a session flagged failed the handler
\* writes its log lines and nothing else.
FinalizationActions(session, result) ==
    (IF session.appointment_datetime # None THEN <<"calendar">> ELSE <<>>)
    \o (IF result = "False" THEN <<>>
        ELSE (IF session.customer_email # None THEN <<"follow_up">>
              ELSE <<>>)
             \o <<"summary">>)

\* POST /status for the call, whole handler.  booking_result['success'] on
\* the bare False raises, and the handler ends there.
StatusCallback(status, cal) ==
    LET present == HasSession(CallSid)
        finalize == status = "completed" /\ present
        failed == finalize /\ SESSIONS[CallSid].call_failed
        booking == /\ finalize
                   /\ ~failed
                   /\ SESSIONS[CallSid].appointment_datetime # None
        result == IF booking
                  THEN BookingResult(SESSIONS[CallSid].appointment_datetime, cal)
                  ELSE "-"
        aborted == result = "False"
        removed == present /\ ~aborted
    IN
    /\ hpc # "idle"
    /\ ~LoopBlocked
    /\ Len(statusLog) < MaxStatus
    /\ ~booking => cal = "ok"
    /\ calendarEvents' = IF result = "success"
                         THEN calendarEvents \cup {"status_callback"}
                         ELSE calendarEvents
    /\ SESSIONS' = IF removed
                   THEN [s \in DOMAIN SESSIONS \ {CallSid} |-> SESSIONS[s]]
                   ELSE SESSIONS
    /\ statusLog' = Append(statusLog,
           [status |-> status,
            branch |-> IF ~finalize THEN "none"
                       ELSE IF failed THEN "failed"
                       ELSE IF aborted THEN "aborted" ELSE "normal",
            calendar |-> result,
            actions |-> (IF failed THEN <<"log_call_failed">>
                         ELSE IF finalize
                         THEN FinalizationActions(SESSIONS[CallSid], result)
                         ELSE <<>>)
                        \o (IF removed THEN <<"remove">> ELSE <<>>),
            response |-> IF aborted THEN "error" ELSE "ok",
            session |-> IF present THEN SESSIONS[CallSid]
                        ELSE NewSession(None),
            removed |-> removed,
            after_failure |-> ~openai_connected])
    /\ UNCHANGED <<smsCount, apiLog>>
    /\ UNCHANGED handlerVars
    /\ UNCHANGED socketVars
    /\ UNCHANGED <<bargeVars, slotVars, extractVars>>

\* ------------------------------------------------------ api_book_appointment
\* POST /api/calendar/book, whole handler: the body has no slot_datetime,
\* one that dateutil cannot parse, or a well-formed one.
ApiBookAppointment(body, cal) ==
    LET result == IF body = "valid"
                  THEN BookingResult("2025-11-18T10:00:00", cal) ELSE "-"
    IN
    /\ StreamLive
    /\ ~LoopBlocked
    /\ Len(apiLog) < MaxApi
    /\ body # "valid" => cal = "ok"
    /\ calendarEvents' = IF result = "success"
                         THEN calendarEvents \cup {"api_book_appointment"}
                         ELSE calendarEvents
    /\ apiLog' = Append(apiLog,
           [calendar |-> result,
            success |-> IF body = "valid" THEN "true" ELSE "false"])
    /\ UNCHANGED <<SESSIONS, smsCount, statusLog>>
    /\ UNCHANGED handlerVars
    /\ UNCHANGED socketVars
    /\ UNCHANGED <<bargeVars, slotVars, extractVars>>

\* ------------------------------------------------------------ slot finders
\* Instants are seconds of one wall clock (the code's Pacific time, with no
\* change of offset inside the horizon), counted from a Monday 00:00:00.
HourOf(t) == (t % DAY) \div HOUR
MinuteOf(t) == (t % HOUR) \div 60
\* datetime.weekday(): Monday is 0, Saturday 5, Sunday 6
Weekday(t) == (t \div DAY) % 7
\* t.replace(minute=0, second=0, microsecond=0)
TruncHour(t) == t - (t % HOUR)
\* t.replace(hour=h, minute=0, second=0, microsecond=0)
AtHour(t, h) == t - (t % DAY) + h * HOUR

\* an event with start.dateTime and end.dateTime
TimedEvent(d, h1, m1, h2, m2) ==
    [kind |-> "dateTime",
     s |-> d * DAY + h1 * HOUR + m1 * 60,
     e |-> d * DAY + h2 * HOUR + m2 * 60]
\* an all-day event: it has start.date and end.date and no dateTime
AllDayEvent(d) == [kind |-> "date", s |-> d * DAY, e |-> (d + 1) * DAY]

\* The events the calendar may hold: Thursday evening, Friday, Saturday
\* morning and the Monday after, some off the hour, two of them all-day.
EventChoices ==
    {TimedEvent(3, 17, 30, 18, 30), TimedEvent(3, 18, 0, 19, 0),
     TimedEvent(4, 10, 0, 19, 0), TimedEvent(4, 17, 0, 18, 0),
     TimedEvent(5, 9, 0, 10, 0), TimedEvent(7, 10, 0, 11, 0),
     AllDayEvent(4), AllDayEvent(5)}

\* The times at which a slot finder is called: Thursday or Friday, before
\* opening, in the afternoon, in the last bookable hour and at night, on
\* and off the hour and the minute.
ClockChoices ==
    {d * DAY + h * HOUR + m * 60 + s :
        d \in {3, 4}, h \in {7, 16, 17, 22}, m \in {0, 30}, s \in {0, 30}}

\* events().list(...).execute() returns the items or raises; missing
\* credentials end the call the same way
EventsListOutcomes == {"ok", "error"}

\* events().list(timeMin, timeMax): the events that end after timeMin and
\* start before timeMax
FetchEvents(timeMin, timeMax) ==
    {ev \in calendar : ev.e > timeMin /\ ev.s < timeMax}

\* {"datetime": t.isoformat(), "display": "<day name> at <hour>"}
Slot(t) == [datetime |-> t, display |-> <<Weekday(t), HourOf(t)>>]

\* one_hour_later = now + 1h, truncated to the hour, one more hour when
\* one_hour_later.minute > 0
FirstSlotTime(t) ==
    LET one_hour_later == t + HOUR
    IN  IF MinuteOf(one_hour_later) > 0
        THEN TruncHour(one_hour_later) + HOUR
        ELSE TruncHour(one_hour_later)

\* the mock slots returned when the calendar client is not available
MockSlots(t, num_slots) ==
    [i \in 1..num_slots |-> Slot(FirstSlotTime(t) + (i - 1) * HOUR)]

\* for event in existing_events: only an event with both dateTime fields
\* is compared; check < event_end and check + 1h > event_start
Conflict(check, existing_events) ==
    \E ev \in existing_events :
        /\ ev.kind = "dateTime"
        /\ check < ev.e
        /\ check + HOUR > ev.s

\* current_check += 1h, and past the last appointment hour or before
\* opening the next day at 9
NextCheck(current_check) ==
    LET next == current_check + HOUR
    IN  IF HourOf(next) > LAST_APPOINTMENT_HOUR \/ HourOf(next) < OPEN_HOUR
        THEN AtHour(next + DAY, OPEN_HOUR)
        ELSE next

RECURSIVE SearchSlots_NoHorizon(_, _, _, _, _)
SearchSlots_NoHorizon(current_check, max_search_date, num_slots, existing_events, available_slots) ==
    IF ~(Len(available_slots) < num_slots)
    THEN available_slots
    ELSE LET found ==
                 /\ HourOf(current_check) >= OPEN_HOUR
                 /\ HourOf(current_check) <= LAST_APPOINTMENT_HOUR
                 /\ ~Conflict(current_check, existing_events)
             slots == IF found
                      THEN Append(available_slots, Slot(current_check))
                      ELSE available_slots
         IN  SearchSlots_NoHorizon(NextCheck(current_check), max_search_date,
                                   num_slots, existing_events, slots)

\* while current_check < max_search_date and len(available_slots) < num_slots
RECURSIVE SearchSlots(_, _, _, _, _)
SearchSlots(current_check, max_search_date, num_slots, existing_events, available_slots) ==
    IF ~(current_check < max_search_date
         /\ Len(available_slots) < num_slots)
    THEN available_slots
    ELSE LET found ==
                 /\ HourOf(current_check) >= OPEN_HOUR
                 /\ HourOf(current_check) <= LAST_APPOINTMENT_HOUR
                 /\ ~Conflict(current_check, existing_events)
             slots == IF found
                      THEN Append(available_slots, Slot(current_check))
                      ELSE available_slots
         IN  IF found /\ Len(slots) >= num_slots
             THEN slots
             ELSE SearchSlots(NextCheck(current_check), max_search_date,
                              num_slots, existing_events, slots)

\* the first hour the search looks at: an hour from now rounded up, or the
\* next day at 9 when that hour is 19 or later or before 9
SearchStart(t) ==
    LET next_slot_time == FirstSlotTime(t)
    IN  IF HourOf(next_slot_time) >= CLOSE_HOUR
           \/ HourOf(next_slot_time) < OPEN_HOUR
        THEN AtHour(next_slot_time + DAY, OPEN_HOUR)
        ELSE next_slot_time

\* get_available_calendar_slots(days_ahead, num_slots)
GetAvailableCalendarSlots(days_ahead, num_slots, listing) ==
    /\ slotCall' =
           IF ~GOOGLE_CALENDAR_AVAILABLE
           THEN [fn |-> "get_available_calendar_slots", path |-> "mock",
                 days_ahead |-> days_ahead, num_slots |-> num_slots,
                 existing_events |-> {},
                 result |-> MockSlots(wallClock, num_slots)]
           ELSE IF listing = "error"
           THEN [fn |-> "get_available_calendar_slots", path |-> "error",
                 days_ahead |-> days_ahead, num_slots |-> num_slots,
                 existing_events |-> {},
                 result |-> <<>>]
           ELSE LET max_search_date == wallClock + days_ahead * DAY
                    existing_events == FetchEvents(wallClock, max_search_date)
                IN  [fn |-> "get_available_calendar_slots", path |-> "calendar",
                     days_ahead |-> days_ahead, num_slots |-> num_slots,
                     existing_events |-> existing_events,
                     result |-> SearchSlots(SearchStart(wallClock),
                                    max_search_date, num_slots,
                                    existing_events, <<>>)]
    /\ UNCHANGED <<GOOGLE_CALENDAR_AVAILABLE, wallClock, calendar>>
    /\ UNCHANGED <<handlerVars, socketVars, serverVars, bargeVars,
                   extractVars>>

NextBusinessDay_NoSkip(next_day) == next_day

\* next_day = now + 1 day; while next_day.weekday() >= 5: next_day += 1 day
RECURSIVE NextBusinessDay(_)
NextBusinessDay(next_day) ==
    IF Weekday(next_day) >= 5
    THEN NextBusinessDay(next_day + DAY)
    ELSE next_day

\* for hour in range(10, LAST_APPOINTMENT_HOUR + 1): the first hour without
\* a conflict, or {} (here the empty sequence) when every hour has one
RECURSIVE FirstFreeHour(_, _, _)
FirstFreeHour(next_day, hour, existing_events) ==
    IF hour > LAST_APPOINTMENT_HOUR
    THEN <<>>
    ELSE IF ~Conflict(AtHour(next_day, hour), existing_events)
         THEN <<Slot(AtHour(next_day, hour))>>
         ELSE FirstFreeHour(next_day, hour + 1, existing_events)

\* get_next_business_day_slot()
GetNextBusinessDaySlot(listing) ==
    /\ slotCall' =
           LET next_day == NextBusinessDay(wallClock + DAY)
               day_start == AtHour(next_day, 0)
               day_end == day_start + DAY - 1
           IN  IF ~GOOGLE_CALENDAR_AVAILABLE
               THEN [fn |-> "get_next_business_day_slot", path |-> "mock",
                     days_ahead |-> 0, num_slots |-> 1,
                     existing_events |-> {},
                     result |-> <<Slot(AtHour(next_day, FIRST_HOUR))>>]
               ELSE IF listing = "error"
               THEN [fn |-> "get_next_business_day_slot", path |-> "error",
                     days_ahead |-> 0, num_slots |-> 1,
                     existing_events |-> {},
                     result |-> <<>>]
               ELSE [fn |-> "get_next_business_day_slot", path |-> "calendar",
                     days_ahead |-> 0, num_slots |-> 1,
                     existing_events |-> FetchEvents(day_start, day_end),
                     result |-> FirstFreeHour(next_day, FIRST_HOUR,
                                    FetchEvents(day_start, day_end))]
    /\ UNCHANGED <<GOOGLE_CALENDAR_AVAILABLE, wallClock, calendar>>
    /\ UNCHANGED <<handlerVars, socketVars, serverVars, bargeVars,
                   extractVars>>

\* ------------------------------------------------------- extract_customer_info
\* A text is a sequence of words and a word a sequence of chunks: runs of
\* letters that hold none of the substrings the code looks for, and the
\* pieces it does look for ("at", "dot", "com", a digit, "@", ".") each as
\* a chunk of its own.  cap says whether the first letter is upper case;
\* stored values are compared without letter case.
LetterChunks ==
    {"a", "b", "c", "d", "k", "e", "at", "bob", "one", "tony", "yes", "gmail",
     "dot", "com", "nail", "salon", "calling", "from", "cutz", "this", "is"}
DigitChunks == {"1"}

\* len() of a chunk, in characters
CharLen(c) ==
    CASE c \in {"a", "b", "c", "d", "k", "e", "1", "@", "."} -> 1
      [] c \in {"at", "is"} -> 2
      [] c \in {"bob", "one", "yes", "dot", "com"} -> 3
      [] c \in {"tony", "nail", "from", "cutz", "this"} -> 4
      [] c \in {"gmail", "salon"} -> 5
      [] OTHER -> 7

RECURSIVE WordLen(_)
WordLen(w) == IF w = <<>> THEN 0 ELSE CharLen(Head(w)) + WordLen(Tail(w))

\* len() of words joined by single spaces
RECURSIVE TextLen(_)
TextLen(ws) ==
    IF ws = <<>> THEN 0
    ELSE IF Len(ws) = 1 THEN WordLen(ws[1])
    ELSE WordLen(Head(ws)) + 1 + TextLen(Tail(ws))

\* ' '.join(texts)
RECURSIVE JoinTexts(_)
JoinTexts(ts) == IF ts = <<>> THEN <<>> ELSE Head(ts) \o JoinTexts(Tail(ts))

\* seq[-3:]
LastThree(seq) ==
    IF Len(seq) <= 3 THEN seq ELSE SubSeq(seq, Len(seq) - 2, Len(seq))

Word(c) == <<c>>
Utterance(cap, words) == [cap |-> cap, words |-> words]

\* What the caller may say: four addresses (two plain, one with "at" in its
\* local part, one with a digit), a spoken address in two parts, names,
\* a stoplist word, single letters, a business type and a company.
Utterances ==
    {Utterance(FALSE, <<<<"a", "@", "b", ".", "com">>>>),
     Utterance(FALSE, <<<<"c", "@", "d", ".", "com">>>>),
     Utterance(FALSE, <<<<"k", "at", "e", "@", "gmail", ".", "com">>>>),
     Utterance(FALSE, <<<<"bob", "1", "@", "gmail", ".", "com">>>>),
     Utterance(TRUE, <<Word("bob"), Word("at"), Word("gmail")>>),
     Utterance(TRUE, <<Word("dot"), Word("com")>>),
     Utterance(TRUE, <<Word("tony")>>),
     Utterance(TRUE, <<Word("this"), Word("is"), Word("tony")>>),
     Utterance(TRUE, <<Word("yes")>>),
     Utterance(TRUE, <<Word("a")>>),
     Utterance(TRUE, <<Word("b")>>),
     Utterance(TRUE, <<Word("nail"), Word("salon")>>),
     Utterance(TRUE, <<Word("calling"), Word("from"), Word("cutz")>>)}

\* the single letters among them
SpelledLetters ==
    {Utterance(TRUE, <<Word("a")>>), Utterance(TRUE, <<Word("b")>>)}

\* [A-Za-z0-9._%+-] and [A-Za-z0-9.-], on the chunks drawn
LocalChunk(c) == c \in LetterChunks \cup DigitChunks \cup {"."}
DomainChunk(c) == c \in LetterChunks \cup DigitChunks \cup {"."}

\* local@domain.tld: one "@", a local part before it, and after it a
\* domain that ends in "." and two letters or more
AddressShape(e) ==
    /\ Cardinality({i \in 1..Len(e) : e[i] = "@"}) = 1
    /\ LET i == CHOOSE j \in 1..Len(e) : e[j] = "@"
           n == Len(e)
       IN  /\ i > 1
           /\ \A j \in 1..(i - 1) : LocalChunk(e[j])
           /\ n >= i + 3
           /\ e[n - 1] = "."
           /\ e[n] \in LetterChunks /\ CharLen(e[n]) >= 2
           /\ \A j \in (i + 1)..(n - 2) : DomainChunk(e[j])

\* validate_email: the pattern, one "@", the two length limits, a dot in
\* the domain
ValidateEmail(e) ==
    /\ e # <<>>
    /\ AddressShape(e)
    /\ LET i == CHOOSE j \in 1..Len(e) : e[j] = "@"
       IN  /\ WordLen(SubSeq(e, 1, i - 1)) > 0
           /\ WordLen(SubSeq(e, 1, i - 1)) <= 64
           /\ WordLen(SubSeq(e, i + 1, Len(e))) > 0
           /\ WordLen(SubSeq(e, i + 1, Len(e))) <= 255
           /\ \E j \in (i + 1)..Len(e) : e[j] = "."

\* normalize_email on a matched address: the digit becomes its word and
\* every "at" becomes "@"
NormalizeEmail(e) ==
    [i \in 1..Len(e) |->
        CASE e[i] = "1" -> "one"
          [] e[i] = "at" -> "@"
          [] OTHER -> e[i]]

\* re.search(email_pattern, text): the first word that is an address
FirstAddress(words) ==
    LET hits == {i \in 1..Len(words) : AddressShape(words[i])}
    IN  IF hits = {} THEN <<>>
        ELSE words[CHOOSE i \in hits : \A j \in hits : i <= j]

AfterWrittenEmail_NoValidate(text, s) ==
    IF FirstAddress(text.words) # <<>>
    THEN [s EXCEPT !.customer_email = NormalizeEmail(FirstAddress(text.words))]
    ELSE s

\* the first block of the extractor: a written address
AfterWrittenEmail(text, s) ==
    LET raw_email == FirstAddress(text.words)
        normalized_email == NormalizeEmail(raw_email)
    IN  IF raw_email # <<>> /\ ValidateEmail(normalized_email)
        THEN [s EXCEPT !.customer_email = normalized_email]
        ELSE s

\* ^[a-z-]+\d*$: letters, then digits only
LettersThenDigits(w) ==
    /\ w # <<>>
    /\ w[1] \in LetterChunks
    /\ \A j \in 1..Len(w) : w[j] \in LetterChunks \cup DigitChunks
    /\ \A j \in 1..(Len(w) - 1) : w[j] \in DigitChunks => w[j + 1] \in DigitChunks

\* \.?$ : the word without a "." at its end
WithoutFinalDot(w) ==
    IF w # <<>> /\ w[Len(w)] = "." THEN SubSeq(w, 1, Len(w) - 1) ELSE w

\* 'at' in t or '@' in t or 'dot' in t or '.com' in t or 'gmail' in t, or
\* ^[a-z-]+\s*\d*\.?$ on at most two words: letters with digits after them
IsEmailFragment(words) ==
    \/ \E i \in 1..Len(words) : \E j \in 1..Len(words[i]) :
           \/ words[i][j] \in {"at", "@", "dot", "gmail"}
           \/ /\ words[i][j] = "."
              /\ j < Len(words[i])
              /\ words[i][j + 1] = "com"
    \/ /\ Len(words) = 1
       /\ LettersThenDigits(WithoutFinalDot(words[1]))
    \/ /\ Len(words) = 2
       /\ LettersThenDigits(words[1])
       /\ \A j \in 1..Len(words[1]) : words[1][j] \in LetterChunks
       /\ WithoutFinalDot(words[2]) # <<>>
       /\ \A j \in 1..Len(WithoutFinalDot(words[2])) :
              WithoutFinalDot(words[2])[j] \in DigitChunks

\* texts that are never stored as a fragment
NotAFragment ==
    {<<Word("my"), Word("email")>>, <<Word("email")>>,
     <<Word("my"), Word("email"), Word("address")>>,
     <<Word("email"), Word("address")>>, <<Word("is")>>, <<Word("yes")>>,
     <<Word("no")>>}

\* email_fragments.append(text_lower), then the last three are kept
StoreEmailFragment(text, s) ==
    IF IsEmailFragment(text.words) /\ text.words \notin NotAFragment
    THEN [s EXCEPT !.email_fragments = LastThree(Append(@, text.words))]
    ELSE s

\* the top-level domains of the spoken patterns
SpokenTlds ==
    {"com", "net", "org", "io", "ai", "us", "uk", "ca", "gov", "edu"}

\* [a-z0-9\._-]+ at the end of a word: the longest such run
RECURSIVE TrailingRun(_)
TrailingRun(w) ==
    IF w = <<>> \/ w[Len(w)] \notin LetterChunks \cup DigitChunks \cup {"."}
    THEN <<>>
    ELSE Append(TrailingRun(SubSeq(w, 1, Len(w) - 1)), w[Len(w)])

\* username.replace(" ", "").replace("-", "").replace(".", "")
CleanUsername(w) == SelectSeq(w, LAMBDA c : c # ".")

\* "name at domain dot com": the address of the leftmost match, <<>>
\* when there is none.  This is the pattern
\*   ([a-z0-9\._-]+)\s+at\s+([a-z0-9-]+)\s+dot\s+(com|net|...)
\* of spoken_patterns; the others need "bone", digits before "at", a
\* ".co" domain, or "@" or "." inside a spoken address, which no
\* utterance drawn here and no join of them contains.
SpokenAddress(words) ==
    LET hits == {i \in 1..(Len(words) - 4) :
                    /\ TrailingRun(words[i]) # <<>>
                    /\ words[i + 1] = Word("at")
                    /\ Len(words[i + 2]) >= 1
                    /\ \A j \in 1..Len(words[i + 2]) :
                           words[i + 2][j] \in LetterChunks \cup DigitChunks
                    /\ words[i + 3] = Word("dot")
                    /\ Len(words[i + 4]) >= 1
                    /\ words[i + 4][1] \in SpokenTlds}
    IN  IF hits = {} THEN <<>>
        ELSE LET i == CHOOSE h \in hits : \A j \in hits : h <= j
             IN  CleanUsername(TrailingRun(words[i])) \o <<"@">>
                     \o words[i + 2] \o <<".", words[i + 4][1]>>

\* the spoken-address block: the text itself, or all fragments joined once
\* there are two of them; a valid address is stored and the fragments go
AfterSpokenEmail(text, s) ==
    LET combined_text == IF Len(s.email_fragments) >= 2
                         THEN JoinTexts(s.email_fragments)
                         ELSE text.words
        email == SpokenAddress(combined_text)
    IN  IF email # <<>> /\ ValidateEmail(email)
        THEN [s EXCEPT !.customer_email = email, !.email_fragments = <<>>]
        ELSE s

\* business_type_keywords, in the order of the list
BusinessKeywords ==
    <<"salon", "shop", "gym", "restaurant", "cafe", "bakery", "hotel",
      "motel", "spa", "barbershop", "pharmacy", "clinic", "hospital",
      "practice", "school", "daycare", "library", "bookstore", "boutique",
      "store", "bar", "pub", "nightclub", "theater", "theatre", "museum",
      "gallery", "garage", "dealership", "workshop", "factory", "warehouse",
      "studio", "office", "firm", "agency", "center", "company", "business",
      "hvac", "plumbing", "electrical", "contractor", "roofing",
      "landscaping", "cleaning", "painting", "flooring", "carpentry",
      "handyman">>

\* the words that are no adjective of a business type
ExcludedAdjectives ==
    {"a", "an", "the", "my", "our", "your", "this", "that", "have", "own",
     "run"}

\* [a-z]+ at the start and at the end of a word: the longest run of letters
RECURSIVE LeadingLetters(_)
LeadingLetters(w) ==
    IF w = <<>> \/ Head(w) \notin LetterChunks THEN <<>>
    ELSE <<Head(w)>> \o LeadingLetters(Tail(w))
RECURSIVE TrailingLetters(_)
TrailingLetters(w) ==
    IF w = <<>> \/ w[Len(w)] \notin LetterChunks THEN <<>>
    ELSE Append(TrailingLetters(SubSeq(w, 1, Len(w) - 1)), w[Len(w)])

\* the least element of a non-empty set of numbers
Least(S) == CHOOSE i \in S : \A j \in S : i <= j

\* \b([a-z]+)\s+keyword\b: where the keyword first follows a word that ends
\* in letters which no digit precedes, 0 when nowhere
KeywordAfterWord(words, keyword) ==
    LET hits == {i \in 2..Len(words) :
                    /\ words[i][1] = keyword
                    /\ Len(words[i]) > 1 => words[i][2] \notin LetterChunks
                                                \cup DigitChunks
                    /\ TrailingLetters(words[i - 1]) # <<>>
                    /\ LET before == Len(words[i - 1])
                                         - Len(TrailingLetters(words[i - 1]))
                       IN  before > 0 =>
                               words[i - 1][before] \notin DigitChunks}
    IN  IF hits = {} THEN 0 ELSE Least(hits)

\* the business-type block: "adjective keyword" first, a keyword alone next
AfterBusinessType(text, s) ==
    IF s.business_type # <<>> THEN s
    ELSE LET words == text.words
             phrase == {k \in 1..Len(BusinessKeywords) :
                 LET i == KeywordAfterWord(words, BusinessKeywords[k])
                 IN  /\ i > 0
                     /\ TrailingLetters(words[i - 1]) \notin
                            {Word(x) : x \in ExcludedAdjectives}}
             alone == {k \in 1..Len(BusinessKeywords) :
                 \E i \in 1..Len(words) :
                     SelectSeq(words[i], LAMBDA c : c # ".")
                         = Word(BusinessKeywords[k])}
         IN  IF phrase # {}
             THEN LET k == Least(phrase)
                      i == KeywordAfterWord(words, BusinessKeywords[k])
                  IN  [s EXCEPT !.business_type =
                          <<TrailingLetters(words[i - 1]),
                            Word(BusinessKeywords[k])>>]
             ELSE IF alone # {}
             THEN [s EXCEPT !.business_type =
                      <<Word(BusinessKeywords[Least(alone)])>>]
             ELSE s

\* the words after which a name follows ("my name's", "i'm" and "it's"
\* need an apostrophe, which no utterance drawn here has)
NameIntroductions ==
    {<<Word("my"), Word("name"), Word("is")>>, <<Word("i"), Word("am")>>,
     <<Word("this"), Word("is")>>, <<Word("speaking"), Word("with")>>}

\* candidates that are no name
NameStoplist ==
    {<<Word(x)>> : x \in {"sure", "yes", "yeah", "okay", "great", "perfect",
                          "hello", "hi", "hey", "thanks", "thank", "ready",
                          "absolutely", "definitely", "yep", "yup", "nope",
                          "nah"}}
        \cup {<<Word("ready"), Word("to")>>}

\* ([a-z]+(?:\s+[a-z]+)?) read from word i on: one run of letters, and a
\* second one when the first is a whole word and another word follows
NameGroup(words, i) ==
    IF i > Len(words) \/ LeadingLetters(words[i]) = <<>> THEN <<>>
    ELSE IF /\ LeadingLetters(words[i]) = words[i]
            /\ i < Len(words)
            /\ LeadingLetters(words[i + 1]) # <<>>
         THEN <<words[i], LeadingLetters(words[i + 1])>>
         ELSE <<LeadingLetters(words[i])>>

\* the first name pattern: an introduction and the name after it
IntroducedName(words) ==
    LET hits == {i \in 1..Len(words) :
                    \E intro \in NameIntroductions :
                        /\ i + Len(intro) <= Len(words)
                        /\ SubSeq(words, i, i + Len(intro) - 1) = intro
                        /\ NameGroup(words, i + Len(intro)) # <<>>}
    IN  IF hits = {} THEN <<>>
        ELSE LET i == Least(hits)
                 intro == CHOOSE x \in NameIntroductions :
                              /\ i + Len(x) <= Len(words)
                              /\ SubSeq(words, i, i + Len(x) - 1) = x
                              /\ NameGroup(words, i + Len(x)) # <<>>
             IN  NameGroup(words, i + Len(intro))

\* what follows the letters that word i starts with is the end of the
\* text or a "."
EndsAfterLetters(words, i) ==
    LET run == LeadingLetters(words[i])
    IN  \/ run = words[i] /\ i = Len(words)
        \/ Len(run) < Len(words[i]) /\ words[i][Len(run) + 1] = "."

\* the second name pattern: the text is one or two words of letters
BareName(words) ==
    IF words = <<>> \/ LeadingLetters(words[1]) = <<>> THEN <<>>
    ELSE IF /\ Len(words) >= 2
            /\ LeadingLetters(words[1]) = words[1]
            /\ LeadingLetters(words[2]) # <<>>
            /\ EndsAfterLetters(words, 2)
         THEN <<words[1], LeadingLetters(words[2])>>
         ELSE IF EndsAfterLetters(words, 1)
              THEN <<LeadingLetters(words[1])>>
              ELSE <<>>

\* customer_name not in excluded and len(customer_name) >= 2
NameAccepted(customer_name) ==
    /\ customer_name # <<>>
    /\ customer_name \notin NameStoplist
    /\ TextLen(customer_name) >= 2

AfterName_Overwrite(text, s) ==
    IF NameAccepted(IntroducedName(text.words))
    THEN [s EXCEPT !.customer_name = IntroducedName(text.words)]
    ELSE IF NameAccepted(BareName(text.words))
    THEN [s EXCEPT !.customer_name = BareName(text.words)]
    ELSE s

\* the name block: only while no name is stored, the first pattern whose
\* candidate is accepted
AfterName(text, s) ==
    IF s.customer_name # <<>> THEN s
    ELSE IF NameAccepted(IntroducedName(text.words))
    THEN [s EXCEPT !.customer_name = IntroducedName(text.words)]
    ELSE IF NameAccepted(BareName(text.words))
    THEN [s EXCEPT !.customer_name = BareName(text.words)]
    ELSE s

\* chunks that hold one of the excluded substrings of a company name
\* ('a', 'an', 'the', 'it', 'we', 'my', 'you', 'this', 'tony', ...)
HoldsExcluded(c) ==
    c \in {"a", "at", "gmail", "nail", "salon", "calling", "tony", "this"}

\* (?:calling from|from)\s+([A-Z][A-Za-z0-9\s&']{2,30}?)(?:\.|,|!|\s+and\s|$):
\* what follows the first "from", up to the first "." or the end, when it
\* starts with a letter, holds letters, digits and spaces only and is 3 to
\* 31 characters long.  The other company patterns need "is" after a
\* business word or after "name", "called", "for", "help" or "and", which
\* no utterance drawn here has in that place.
CompanyAfterFrom(words) ==
    LET hits == {i \in 1..(Len(words) - 1) :
                    /\ words[i][Len(words[i])] = "from"
                    /\ words[i + 1][1] \in LetterChunks
                    /\ \A j \in (i + 1)..Len(words) :
                           \A k \in 1..Len(words[j]) :
                               words[j][k] \in LetterChunks \cup DigitChunks
                    /\ TextLen(SubSeq(words, i + 1, Len(words))) >= 3
                    /\ TextLen(SubSeq(words, i + 1, Len(words))) <= 31}
    IN  IF hits = {} THEN <<>>
        ELSE SubSeq(words, Least(hits) + 1, Len(words))

\* the company block: a candidate is stored (a later one replaces an
\* earlier one) unless it holds an excluded substring
AfterCompanyPattern(text, s) ==
    LET company_name == CompanyAfterFrom(text.words)
        is_excluded == \E i \in 1..Len(company_name) :
                           \E k \in 1..Len(company_name[i]) :
                               HoldsExcluded(company_name[i][k])
    IN  IF company_name # <<>> /\ ~is_excluded /\ TextLen(company_name) > 1
        THEN [s EXCEPT !.company_name = company_name]
        ELSE s

\* common_phrases: texts never kept as a piece of a company name
CommonPhrases ==
    {<<Word("the"), Word("name"), Word("of"), Word("my")>>,
     <<Word("my"), Word("business"), Word("is")>>,
     <<Word("my"), Word("shop"), Word("is")>>,
     <<Word("thank"), Word("you")>>, <<Word("i"), Word("see")>>,
     <<Word("got"), Word("it")>>, <<Word("it"), Word("is")>>,
     <<Word("that"), Word("is")>>, <<Word("i'm"), Word("sorry")>>,
     <<Word("im"), Word("sorry")>>, <<Word("excuse"), Word("me")>>,
     <<Word("i"), Word("would"), Word("love"), Word("to")>>,
     <<Word("i"), Word("would")>>,
     <<Word("my"), Word("email"), Word("address")>>}
        \cup {<<Word(x)>> : x \in
                {"yes", "no", "thanks", "bye", "goodbye", "hello", "hi",
                 "hey", "okay", "ok", "sure", "great", "perfect", "nice",
                 "wonderful", "right", "correct", "exactly", "almost", "its",
                 "it's", "that's", "thats", "sorry", "pardon", "what", "huh"}}

\* re.sub(r'[.,!?;:]', '', text)
Unpunctuated(words) ==
    [i \in 1..Len(words) |-> SelectSeq(words[i], LAMBDA c : c # ".")]

\* combined without a leading article and without a trailing is/are/and
TrimCombined(words) ==
    LET a == IF Len(words) >= 2 /\ words[1] \in {Word("the"), Word("a"),
                                                Word("an")}
             THEN Tail(words) ELSE words
    IN  IF Len(a) >= 2 /\ Unpunctuated(<<a[Len(a)]>>)[1] \in
               {Word("is"), Word("are"), Word("and")}
        THEN SubSeq(a, 1, Len(a) - 1)
        ELSE a

\* the company-fragment block: while no company name is stored, a short
\* capitalised text that is no common phrase and has no email word is
\* appended; from two fragments on the last three are joined and, when
\* longer than 3 characters, stored as the company name, and the list goes
AfterCompanyFragment(text, s) ==
    IF s.company_name # <<>> THEN s
    ELSE LET words == text.words
             text_normalized == Unpunctuated(words)
             has_email_word ==
                 \E i \in 1..Len(words) : \E k \in 1..Len(words[i]) :
                     words[i][k] \in {"at", "dot", "com", "gmail", "@"}
             looks_like_email ==
                 \/ \E i \in 1..Len(words) : \E k \in 1..Len(words[i]) :
                        words[i][k] = "@"
                 \/ /\ \E i \in 1..Len(words) : \E k \in 1..Len(words[i]) :
                           words[i][k] = "at"
                    /\ \E i \in 1..Len(words) : \E k \in 1..Len(words[i]) :
                           words[i][k] \in DigitChunks
         IN  IF /\ words # <<>>
                /\ text.cap
                /\ Len(words) <= 3
                /\ text_normalized \notin CommonPhrases
                /\ ~has_email_word
                /\ ~looks_like_email
             THEN LET fragments == Append(s.company_name_fragments, words)
                      combined == TrimCombined(JoinTexts(LastThree(fragments)))
                  IN  IF Len(fragments) >= 2 /\ TextLen(combined) > 3
                      THEN [s EXCEPT !.company_name = combined,
                                     !.company_name_fragments = <<>>]
                      ELSE [s EXCEPT !.company_name_fragments = fragments]
             ELSE s

\* extract_customer_info past its first test: the blocks in their order
ExtractUser(text, s) ==
    AfterCompanyFragment(text,
      AfterCompanyPattern(text,
        AfterName(text,
          AfterBusinessType(text,
            AfterSpokenEmail(text,
              StoreEmailFragment(text,
                AfterWrittenEmail(text, s)))))))

Extract_AnyRole(text, s, is_user_speech) == ExtractUser(text, s)

\* extract_customer_info(text, session, is_user_speech)
Extract(text, s, is_user_speech) ==
    IF ~is_user_speech THEN s ELSE ExtractUser(text, s)

\* extract_customer_info called on the session, with either flag
ExtractCustomerInfo(text, is_user_speech) ==
    /\ extractSession' = Extract(text, extractSession, is_user_speech)
    /\ extractCall' = [event |-> "call", role |-> None, text |-> text,
                       is_user_speech |-> is_user_speech, called |-> TRUE]
    /\ utterances' = utterances + 1
    /\ UNCHANGED <<handlerVars, socketVars, serverVars, bargeVars, slotVars>>

\* send_to_twilio on conversation.item.input_audio_transcription.completed
\* with a transcript, the call's session being in SESSIONS: the row of the
\* user is written and the extractor runs on the transcript
InputTranscriptionCompleted(transcript) ==
    /\ extractSession' = Extract(transcript, extractSession, TRUE)
    /\ extractCall' =
           [event |-> "conversation.item.input_audio_transcription.completed",
            role |-> "user", text |-> transcript, is_user_speech |-> TRUE,
            called |-> TRUE]
    /\ utterances' = utterances + 1
    /\ UNCHANGED <<handlerVars, socketVars, serverVars, bargeVars, slotVars>>

\* send_to_twilio on response.audio_transcript.done with a transcript: the
\* row of the assistant is written, and that is all
AudioTranscriptDone(transcript) ==
    /\ extractCall' = [event |-> "response.audio_transcript.done",
                       role |-> "assistant", text |-> transcript,
                       is_user_speech |-> FALSE, called |-> FALSE]
    /\ utterances' = utterances + 1
    /\ UNCHANGED extractSession
    /\ UNCHANGED <<handlerVars, socketVars, serverVars, bargeVars, slotVars>>


\* ------------------------------------------------------------ specifications
Next ==
    \/ \E from \in Phones : IncomingCall(from)
    \/ ConnectAttempt("ok")
    \/ \E ev \in {"start", "media", "mark", "stop"} : TwilioSend(ev)
    \/ TwilioDisconnect
    \/ \E t \in BackendEvents : BackendSend(t)
    \/ \E how \in {"closed_ok", "closed_err"} : BackendClose(how)
    \/ \E pong \in BOOLEAN : HeartbeatTick(pong)
    \/ InRecv
    \/ InStartCreate
    \/ OutStreamEnd
    \/ OutAudioDelta("item_1")
    \/ \E supabase \in BOOLEAN : OutTranscript(supabase)
    \/ OutTranscriptReturn
    \/ \E code \in ErrorCodes : OutError(code)
    \/ \E name \in FunctionNames, arguments \in ArgShapes, supabase \in BOOLEAN :
           OutFunctionCall(name, arguments, supabase)
    \/ \E outcome \in CalendarListOutcomes \cup SendOutcomes :
           OutCollabReturn(outcome)
    \/ OutSendOutput
    \/ OutSendCreate
    \/ HandlerFinally

\* One call whose backend is reachable at the first attempt and whose
\* audio deltas all belong to one item.
Spec == Init /\ [][Next]_vars

\* Connection establishment with every outcome of every attempt, and the
\* start of the relay.
NextConnect ==
    \/ \E from \in Phones : IncomingCall(from)
    \/ \E outcome \in ConnectOutcomes : ConnectAttempt(outcome)
    \/ \E ev \in {"start", "media", "mark", "stop"} : TwilioSend(ev)
    \/ TwilioDisconnect
    \/ \E pong \in BOOLEAN : HeartbeatTick(pong)
    \/ InRecv
    \/ InStartCreate

SpecConnect == Init /\ [][NextConnect]_vars

\* The relay of audio: the backend emits audio deltas and asks for one tool
\* that calls no collaborator, take_message.
NextRelay ==
    \/ \E from \in Phones : IncomingCall(from)
    \/ ConnectAttempt("ok")
    \/ \E ev \in {"start", "media", "mark", "stop"} : TwilioSend(ev)
    \/ TwilioDisconnect
    \/ \E t \in {"response.audio.delta",
                 "response.function_call_arguments.done"} : BackendSend(t)
    \/ \E how \in {"closed_ok", "closed_err"} : BackendClose(how)
    \/ \E pong \in BOOLEAN : HeartbeatTick(pong)
    \/ InRecv
    \/ InStartCreate
    \/ OutStreamEnd
    \/ \E item \in Items : OutAudioDelta(item)
    \/ \E arguments \in ArgShapes, supabase \in BOOLEAN :
           OutFunctionCall("take_message", arguments, supabase)
    \/ OutSendOutput
    \/ OutSendCreate
    \/ HandlerFinally

SpecRelay == Init /\ [][NextRelay]_vars

\* Barge-in on two sockets that stay open: the caller speaks while
\* assistant audio plays, and time passes.
NextBarge ==
    \/ \E from \in Phones : IncomingCall(from)
    \/ ConnectAttempt("ok")
    \/ \E ev \in {"start", "media", "mark"} : TwilioSend(ev)
    \/ \E t \in {"response.audio.delta",
                 "input_audio_buffer.speech_started"} : BackendSend(t)
    \/ InRecv
    \/ InStartCreate
    \/ \E item \in Items : OutAudioDelta(item)
    \/ OutSpeechStarted
    \/ OutSendClear
    \/ Tick

SpecBarge == Init /\ [][NextBarge]_vars

\* The relay of one call on two sockets that stay open, while the clock
\* runs up to and past the ceiling on the length of a call.
NextCeiling ==
    \/ \E from \in Phones : IncomingCall(from)
    \/ ConnectAttempt("ok")
    \/ \E ev \in {"start", "media", "mark"} : TwilioSend(ev)
    \/ BackendSend("response.audio.delta")
    \/ InRecv
    \/ InStartCreate
    \/ \E item \in Items : OutAudioDelta(item)
    \/ Tick
    \/ WaitCallDuration

SpecCeiling == Init /\ [][NextCeiling]_vars

\* The session store, the webhooks and the booking endpoint around one call
\* whose backend only asks for book_appointment and whose telephony side
\* only starts and stops the stream.
NextFinal ==
    \/ \E from \in Phones : IncomingCall(from)
    \/ ConnectAttempt("ok")
    \/ \E ev \in {"start", "stop"} : TwilioSend(ev)
    \/ TwilioDisconnect
    \/ BackendSend("response.function_call_arguments.done")
    \/ \E how \in {"closed_ok", "closed_err"} : BackendClose(how)
    \/ InRecv
    \/ InStartCreate
    \/ OutStreamEnd
    \/ \E arguments \in ArgShapes, supabase \in BOOLEAN :
           OutFunctionCall("book_appointment", arguments, supabase)
    \/ OutSendOutput
    \/ OutSendCreate
    \/ HandlerFinally
    \/ \E status \in CallStatuses, cal \in CalendarInsertOutcomes :
           StatusCallback(status, cal)
    \/ \E body \in {"no_slot_datetime", "unparsable", "valid"},
          cal \in CalendarInsertOutcomes : ApiBookAppointment(body, cal)

SpecFinal == Init /\ [][NextFinal]_vars

\* The slot finders as functions of the clock, the calendar and their
\* arguments: every input is drawn at the start, then the finders are called.
InitSlots ==
    /\ InitBridge
    /\ GOOGLE_CALENDAR_AVAILABLE \in BOOLEAN
    /\ wallClock \in ClockChoices
    /\ calendar \in {c \in SUBSET EventChoices : Cardinality(c) <= MaxEvents}
    /\ slotCall = NoSlotCall
    /\ InitExtractIdle

NextSlots ==
    \/ \E days_ahead \in (-1)..MaxDaysAhead, num_slots \in 1..MaxSlots,
          listing \in EventsListOutcomes :
           GetAvailableCalendarSlots(days_ahead, num_slots, listing)
    \/ \E listing \in EventsListOutcomes : GetNextBusinessDaySlot(listing)

SpecSlots == InitSlots /\ [][NextSlots]_vars

\* The sessions a call can leave behind for its status webhooks: with or
\* without a name, an email and a slot (a well-formed one or one that is
\* no ISO string), flagged failed or not.
EndedSessions ==
    {[NewSession(from) EXCEPT !.customer_name = name,
                              !.customer_email = email,
                              !.appointment_datetime = slot,
                              !.call_failed = failed] :
        from \in Phones, name \in {None, "caller_name"},
        email \in {None, "a@b.com"},
        slot \in {None, "2025-11-18T10:00:00", "nonstring"},
        failed \in BOOLEAN}

\* The status webhook as a function of the session it finds: the call is
\* over, its handler has returned, and its session is any of the above.
InitFinalize ==
    /\ SESSIONS \in {(CallSid :> s) : s \in EndedSessions}
    /\ hpc = "returned"
    /\ attemptLog = <<"ok">>
    /\ waitLog = <<0>>
    /\ openai_ws = "closed_ok"
    /\ hbPc = "done"
    /\ inPc = "done"
    /\ outPc = "done"
    /\ call_sid = CallSid
    /\ stream_sid = None
    /\ mark_queue = 0
    /\ openai_connected = TRUE
    /\ outExit = "-"
    /\ function_call = NoCall
    /\ dispatchSent = <<>>
    /\ InitWorld
    /\ GOOGLE_CALENDAR_AVAILABLE = TRUE
    /\ wallClock = 0
    /\ calendar = {}
    /\ slotCall = NoSlotCall
    /\ InitExtractIdle

NextFinalize ==
    \E status \in CallStatuses, cal \in CalendarInsertOutcomes :
        StatusCallback(status, cal)

SpecFinalize == InitFinalize /\ [][NextFinalize]_vars

\* The extractor on a fresh session: transcripts of the caller and of the
\* assistant arrive in any order, and the function is called with either
\* flag.
NextExtract ==
    \/ \E text \in Utterances, is_user_speech \in BOOLEAN :
           utterances < MaxUtterances
               /\ ExtractCustomerInfo(text, is_user_speech)
    \/ \E transcript \in Utterances :
           utterances < MaxUtterances
               /\ InputTranscriptionCompleted(transcript)
    \/ \E transcript \in Utterances :
           utterances < MaxUtterances /\ AudioTranscriptDone(transcript)

SpecExtract == Init /\ [][NextExtract]_vars

\* The same on a caller who spells: every transcript is a single letter.
NextSpelling ==
    \/ \E text \in SpelledLetters, is_user_speech \in BOOLEAN :
           utterances < MaxSpelled
               /\ ExtractCustomerInfo(text, is_user_speech)
    \/ \E transcript \in SpelledLetters :
           utterances < MaxSpelled
               /\ InputTranscriptionCompleted(transcript)
    \/ \E transcript \in SpelledLetters :
           utterances < MaxSpelled /\ AudioTranscriptDone(transcript)

SpecSpelling == Init /\ [][NextSpelling]_vars

\* ------------------------------------------------------------------ claims
\* A step of the media-stream handler itself: of its two loops or of its
\* finally block, none of which is a message from a peer.
HandlerStep ==
    \/ InRecv
    \/ InStartCreate
    \/ OutStreamEnd
    \/ \E item \in Items : OutAudioDelta(item)
    \/ \E supabase \in BOOLEAN : OutTranscript(supabase)
    \/ OutTranscriptReturn
    \/ \E code \in ErrorCodes : OutError(code)
    \/ \E name \in FunctionNames, arguments \in ArgShapes, supabase \in BOOLEAN :
           OutFunctionCall(name, arguments, supabase)
    \/ \E outcome \in CalendarListOutcomes \cup SendOutcomes :
           OutCollabReturn(outcome)
    \/ OutSendOutput
    \/ OutSendCreate
    \/ OutSpeechStarted
    \/ OutSendClear
    \/ HandlerFinally

\* One side of the relay has gone: the telephony socket is closed (after a
\* stop or without one) or the backend socket is closed.
TeardownStarted ==
    \/ twilio_ws = "closed"
    \/ twPhase = "stopped" /\ twilioInbox = <<>>
    \/ openai_ws \in {"closed_ok", "closed_err"}

\* C1: when the outbound loop is back at its wait for the next backend
\* message after a function-call request, the dispatcher has sent exactly
\* one function_call_output with the call_id of the request and then
\* exactly one response.create.
C1_OneOutputThenCreate ==
    (outPc = "recv" /\ function_call.call_id # 0) =>
        dispatchSent =
            <<OutMsg("function_call_output", function_call.call_id),
              OutMsg("response.create", 0)>>

\* C2: the outbound loop is never left because the dispatch of a
\* function-call request raised.
C2_DispatchNeverEndsLoop == outExit # "dispatch_error"

\* C3: a tool call whose collaborator failed has a result with
\* success = false.
C3_FailureGivesSuccessFalse ==
    function_call.collab = "fail" => function_call.success = "false"

\* C4: every insert in the calendar is made by the call-status webhook.
C4_InsertOnlyByStatusWebhook == calendarEvents \subseteq {"status_callback"}

\* C5: at most one trial-link SMS is sent in a call.
C5_AtMostOneSms == smsCount <= 1

\* C6: a telephony frame that waits to be read while the relay runs can be
\* forwarded by the inbound loop, whatever the outbound loop is doing.
C6_InboundKeepsForwarding ==
    (hpc = "relay" /\ inPc = "recv" /\ twilioInbox # <<>>) => ENABLED InRecv

\* C7: once one side of the relay has gone, the handler that has not yet
\* returned can take a step of its own, without a message from a peer.
C7_TeardownNeedsNoPeer ==
    (hpc = "relay" /\ TeardownStarted) => ENABLED HandlerStep

\* C8: when the handler has returned after the outbound loop met a backend
\* failure, the session the completed webhook will read has call_failed.
C8_FailureMarksSession ==
    (hpc = "returned" /\ ~openai_connected /\ HasSession(CallSid)) =>
        SESSIONS[CallSid].call_failed

\* C9: at most WS_MAX_RETRIES attempts are made, none after a success; the
\* result is None exactly when WS_MAX_RETRIES attempts were made and all
\* failed; a success gives the connection on which the relay starts.
C9_BoundedRetry ==
    LET n == Len(attemptLog) IN
    /\ n <= WS_MAX_RETRIES
    /\ \A i \in 1..(n - 1) : attemptLog[i] # "ok"
    /\ openai_ws = None <=>
           (n = WS_MAX_RETRIES /\ \A i \in 1..n : attemptLog[i] # "ok")
    /\ (n > 0 /\ attemptLog[n] = "ok") <=> hpc = "relay"
    /\ hpc = "relay" => openai_ws \in {"open", "closed_ok"}
    /\ hpc = "returned" => openai_ws = None

\* Two failed attempts, then a success: the relay runs on a live connection.
C9_Witness ==
    /\ attemptLog = <<"timeout", "error", "ok">>
    /\ openai_ws = "open"
    /\ hpc = "relay"
    /\ inPc = "recv"

\* C10: the wait before attempt k (k counted from 0) is
\* WS_RETRY_DELAY_BASE * 2^k.
C10_WaitSchedule ==
    \A k \in 1..Len(waitLog) : waitLog[k] = RetryDelay(k - 1)

\* C11: when every connection attempt has failed the handler has returned
\* with nothing sent to the backend or to telephony, no heartbeat task and
\* no forwarding loop started.
C11_NoRelayAfterExhaustion ==
    openai_ws = None =>
        /\ hpc = "returned"
        /\ toOpenai = <<>>
        /\ toTwilio = <<>>
        /\ hbPc = "idle"
        /\ inPc = "idle"
        /\ outPc = "idle"

\* Three failed attempts while a telephony event waits to be read.
C11_Witness ==
    /\ openai_ws = None
    /\ Len(attemptLog) = WS_MAX_RETRIES
    /\ twilioInbox # <<>>

\* C12: when every connection attempt has failed, the session of the call
\* carries call_failed.
C12_ExhaustionMarksSession ==
    (openai_ws = None /\ HasSession(CallSid)) => SESSIONS[CallSid].call_failed

\* C13: a round of the heartbeat, whatever its probe does, leaves the
\* backend socket, both forwarding loops and the session store as they are.
C13_HeartbeatOnlyEndsItself ==
    [][(hbPc = "sleep" /\ hbPc' # "sleep") =>
           /\ openai_ws' = openai_ws
           /\ inPc' = inPc
           /\ outPc' = outPc
           /\ hpc' = hpc
           /\ SESSIONS' = SESSIONS]_vars

\* A probe has timed out on an open backend socket and both loops run on.
C13_Witness ==
    /\ hbPc = "done"
    /\ openai_ws = "open"
    /\ hpc = "relay"
    /\ inPc = "recv"
    /\ outPc = "recv"
    /\ toOpenai # <<>>

IsAppend(m) == m.type = "input_audio_buffer.append"
IsMedia(m) == m.type = "media"
IsDelta(m) == m.type = "response.audio.delta"
IsMediaEvent(m) == m.event = "media"

\* the audio the bridge has sent to the backend, and to telephony
Appends == SelectSeq(toOpenai, IsAppend)
Medias == SelectSeq(toTwilio, IsMedia)

C15_UpdateThenCreate ==
    /\ Cardinality({i \in 1..Len(toOpenai) :
                        toOpenai[i].type = "session.update"}) <= 1
    /\ \A i \in 1..Len(toOpenai) :
           toOpenai[i].type = "session.update" =>
               /\ \A j \in 1..(i - 1) : toOpenai[j].type # "response.create"
               /\ i < Len(toOpenai) => toOpenai[i + 1].type = "response.create"
               /\ i = Len(toOpenai) => inPc \in {"start_create", "done"}

\* The greeting was requested right after the configuration, and the
\* outbound loop has since sent the result of a tool call.
C15_Witness ==
    /\ Len(toOpenai) >= 3
    /\ toOpenai[1].type = "session.update"
    /\ toOpenai[2].type = "response.create"
    /\ \E i \in 3..Len(toOpenai) : toOpenai[i].type = "function_call_output"

\* The outbound loop reads a speech-started signal in this step.
SpeechRead ==
    /\ outPc = "recv"
    /\ openaiInbox # <<>>
    /\ Head(openaiInbox).type = "input_audio_buffer.speech_started"
    /\ openaiInbox' = Tail(openaiInbox)

\* C16: a speech-started signal read less than 3 seconds after the stream
\* start sends nothing to the backend or to telephony and leaves the mark
\* queue, the in-flight item and the response start timestamp unchanged.
C16_GraceWindowIgnores ==
    [][(SpeechRead /\ stream_start_time # NoTime
                   /\ now - stream_start_time < 3) =>
           /\ toOpenai' = toOpenai
           /\ toTwilio' = toTwilio
           /\ mark_queue' = mark_queue
           /\ last_assistant_item' = last_assistant_item
           /\ response_start_timestamp_twilio' =
                  response_start_timestamp_twilio
           /\ outPc' = "recv"]_vars

\* A signal was read inside the grace window while assistant audio played,
\* and the audio is still queued.
C16_Witness ==
    /\ \E i \in 1..Len(speechLog) : speechLog[i].grace /\ speechLog[i].playing
    /\ mark_queue > 0
    /\ last_assistant_item # None
    /\ \A i \in 1..Len(toTwilio) : toTwilio[i].type # "clear"

\* C17: a speech-started signal read past the grace window while assistant
\* audio plays, on two open sockets, sends the backend a truncate of the
\* in-flight item with audio_end_ms = latest_media_timestamp minus the
\* response start timestamp; until the clear is sent to telephony nothing
\* else is sent to telephony, and the clear is the next step of the loop.
C17_TruncateThenClear ==
    [][/\ (SpeechRead /\ hpc = "relay"
                      /\ ~(stream_start_time # NoTime
                           /\ now - stream_start_time < 3)
                      /\ mark_queue > 0
                      /\ response_start_timestamp_twilio # NoTime
                      /\ openai_ws = "open") =>
              /\ toOpenai' = Append(toOpenai,
                     [type |-> "conversation.item.truncate",
                      item |-> last_assistant_item,
                      arg |-> latest_media_timestamp
                                  - response_start_timestamp_twilio])
              /\ last_assistant_item # None
              /\ toTwilio' = toTwilio
              /\ outPc' = "send_clear"
       /\ outPc = "send_clear" =>
              \/ toTwilio' = toTwilio /\ outPc' = "send_clear"
              \/ toTwilio' = Append(toTwilio, OutMsg("clear", 0))
              \/ twilio_ws = "closed" /\ toTwilio' = toTwilio
      ]_vars

\* A barge-in was handled with a playback time that is neither the latest
\* timestamp nor zero: truncate, then clear.
C17_Witness ==
    /\ \E i \in 1..Len(toOpenai) :
           /\ toOpenai[i].type = "conversation.item.truncate"
           /\ toOpenai[i].arg = 1
    /\ latest_media_timestamp = 2
    /\ toTwilio # <<>>
    /\ toTwilio[Len(toTwilio)].type = "clear"

\* the last message sent to telephony is a clear
LastIsClear == toTwilio # <<>> /\ toTwilio[Len(toTwilio)].type = "clear"

\* C18: as long as no audio frame has been forwarded since a clear, the
\* mark queue is empty and the in-flight item and start timestamp are
\* cleared, and a speech-started signal read then sends nothing.
C18_SecondSignalDropped ==
    /\ [](LastIsClear =>
              /\ mark_queue = 0
              /\ last_assistant_item = None
              /\ response_start_timestamp_twilio = NoTime)
    /\ [][(SpeechRead /\ LastIsClear) =>
              /\ toOpenai' = toOpenai
              /\ toTwilio' = toTwilio
              /\ outPc' = "recv"]_vars

\* Two signals were read: the first was handled, the second found nothing
\* playing, and no audio frame has followed the clear.
C18_Witness ==
    /\ Len(speechLog) = 2
    /\ speechLog[1].playing /\ ~speechLog[1].grace
    /\ ~speechLog[2].playing
    /\ LastIsClear
    /\ Cardinality({i \in 1..Len(toTwilio) : toTwilio[i].type = "clear"}) = 1

\* C19: every slot get_available_calendar_slots returns starts on a whole
\* hour, and at an hour of the operating window 9..18.
C19_SlotsInOperatingWindow ==
    slotCall.fn = "get_available_calendar_slots" =>
        \A i \in 1..Len(slotCall.result) :
            /\ slotCall.result[i].datetime % HOUR = 0
            /\ HourOf(slotCall.result[i].datetime) >= OPEN_HOUR
            /\ HourOf(slotCall.result[i].datetime) <= LAST_APPOINTMENT_HOUR

\* C20: a slot returned by either slot finder, taken as the hour from its
\* start, overlaps no event of the list the finder fetched: for no event
\* [s, e) of the list is start < e and start + 1h > s.
C20_NoOverlapWithFetched ==
    \A i \in 1..Len(slotCall.result) :
        \A ev \in slotCall.existing_events :
            ~(/\ slotCall.result[i].datetime < ev.e
              /\ slotCall.result[i].datetime + HOUR > ev.s)

\* the whole hours from the hour of the call to the end of the longest horizon
HourGrid ==
    {k * HOUR : k \in (wallClock \div HOUR)..
                      ((wallClock + (MaxDaysAhead + 2) * DAY) \div HOUR)}

\* an event with start and end times overlaps the hour that starts at t
Booked(t, events) ==
    \E ev \in events : ev.kind = "dateTime" /\ t < ev.e /\ t + HOUR > ev.s

\* C21: asked for one slot, with the calendar listed, the finder returns the
\* earliest whole hour that is at least an hour after the call, in the
\* window 9..18, before now + days_ahead and free of the fetched events,
\* and it returns nothing only when there is no such hour.
C21_EarliestQualifyingSlot ==
    (/\ slotCall.fn = "get_available_calendar_slots"
     /\ slotCall.path = "calendar"
     /\ slotCall.num_slots = 1) =>
        LET qualifying ==
                {t \in HourGrid :
                    /\ t >= wallClock + HOUR
                    /\ HourOf(t) >= 9 /\ HourOf(t) <= 18
                    /\ t < wallClock + slotCall.days_ahead * DAY
                    /\ ~Booked(t, slotCall.existing_events)}
        IN  IF qualifying = {}
            THEN slotCall.result = <<>>
            ELSE /\ Len(slotCall.result) = 1
                 /\ slotCall.result[1].datetime \in qualifying
                 /\ \A t \in qualifying : slotCall.result[1].datetime <= t

UserRun(call) == call.called /\ call.is_user_speech

\* C24: the extractor changes the session only on the caller's speech: a
\* call with is_user_speech false leaves every field and both fragment
\* lists as they were, and of the two transcript events only the caller's
\* runs the extractor, the assistant's never.
C24_OnlyUserSpeechExtracts ==
    [][/\ ~extractCall'.is_user_speech => extractSession' = extractSession
       /\ extractCall'.role = "assistant" =>
              ~extractCall'.called /\ extractSession' = extractSession
       /\ (extractCall'.called /\ extractCall'.role # None) =>
              /\ extractCall'.role = "user"
              /\ extractCall'.event =
                     "conversation.item.input_audio_transcription.completed"
      ]_vars

\* the extractor was called without the user flag on a transcript that
\* would have given a name, on a session that already held something
C24_Witness ==
    /\ extractCall.called
    /\ ~extractCall.is_user_speech
    /\ extractSession # NewExtractSession
    /\ ExtractUser(extractCall.text, extractSession) # extractSession

\* C25: after an utterance of the caller that contains a valid address,
\* customer_email is that address, whatever was stored or buffered before.
C25_EmailNeverLocks ==
    (/\ UserRun(extractCall)
     /\ FirstAddress(extractCall.text.words) # <<>>
     /\ ValidateEmail(FirstAddress(extractCall.text.words)))
        => extractSession.customer_email
               = FirstAddress(extractCall.text.words)

\* the spoken address the extractor would try on this text and session
SpokenCandidate(text, s) ==
    LET fragments == StoreEmailFragment(text, s).email_fragments
    IN  SpokenAddress(IF Len(fragments) >= 2 THEN JoinTexts(fragments)
                      ELSE text.words)

\* C26: customer_email is unset or an address validate_email accepts, and
\* an utterance whose candidate is rejected (its written address fails
\* after normalisation and no spoken address is found) leaves
\* customer_email as it was.
C26_EmailValidated ==
    [][/\ \/ extractSession'.customer_email = <<>>
          \/ ValidateEmail(extractSession'.customer_email)
       /\ (/\ UserRun(extractCall')
           /\ FirstAddress(extractCall'.text.words) # <<>>
           /\ ~ValidateEmail(NormalizeEmail(
                  FirstAddress(extractCall'.text.words)))
           /\ SpokenCandidate(extractCall'.text, extractSession) = <<>>)
              => extractSession'.customer_email
                     = extractSession.customer_email
      ]_vars

\* an address is stored and the caller's last utterance held a written
\* address that was rejected
C26_Witness ==
    /\ UserRun(extractCall)
    /\ extractSession.customer_email # <<>>
    /\ FirstAddress(extractCall.text.words) # <<>>
    /\ ~ValidateEmail(NormalizeEmail(FirstAddress(extractCall.text.words)))

\* C27: once a name is stored no utterance changes it, and an utterance
\* that is only a stoplist word stores none.
C27_NameCapturedOnce ==
    [][/\ extractSession.customer_name # <<>> =>
              extractSession'.customer_name = extractSession.customer_name
       /\ (/\ UserRun(extractCall')
           /\ extractCall'.text.words \in NameStoplist
           /\ extractSession.customer_name = <<>>)
              => extractSession'.customer_name = <<>>
      ]_vars

\* a name is stored and the caller's last utterance offered another one
C27_Witness ==
    /\ UserRun(extractCall)
    /\ extractSession.customer_name # <<>>
    /\ NameAccepted(BareName(extractCall.text.words))
    /\ BareName(extractCall.text.words) # extractSession.customer_name

\* C28: running the extractor again on the utterance it has just handled
\* leaves customer_name, customer_email, business_type and company_name
\* as the first run left them.
C28_SecondRunKeepsFields ==
    UserRun(extractCall) =>
        LET again == Extract(extractCall.text, extractSession, TRUE)
        IN  /\ again.customer_name = extractSession.customer_name
            /\ again.customer_email = extractSession.customer_email
            /\ again.business_type = extractSession.business_type
            /\ again.company_name = extractSession.company_name

\* C29: neither fragment list ever holds more than three entries.
C29_FragmentBuffersBounded ==
    /\ Len(extractSession.email_fragments) <= 3
    /\ Len(extractSession.company_name_fragments) <= 3

\* C30: a status webhook other than "completed" finalizes nothing (no
\* calendar write, no branch of the follow-up taken) and leaves the
\* session stored; whenever a webhook removed the session it was the
\* completed one.
C30_OnlyCompletedRemovesSession ==
    \A i \in 1..Len(statusLog) :
        /\ statusLog[i].status # "completed" =>
               /\ statusLog[i].branch = "none"
               /\ statusLog[i].calendar = "-"
               /\ ~statusLog[i].removed
        /\ statusLog[i].removed => statusLog[i].status = "completed"

\* the webhook served a stored session that was not flagged failed with
\* CallStatus completed
Finalized(e) == e.branch \in {"normal", "aborted"}

\* the action is among those the webhook made
Did(e, action) == \E k \in 1..Len(e.actions) : e.actions[k] = action

\* C31: when a slot was recorded and the calendar write fails (the insert
\* raises, or the calendar library or its credentials are missing), the
\* completed webhook still sends the follow-up if an email is stored, still
\* sends the summary, still removes the session and answers normally.
C31_CalendarFailureIsSoft ==
    \A i \in 1..Len(statusLog) :
        (Finalized(statusLog[i]) /\ statusLog[i].calendar \in {"failure", "False"})
            => /\ statusLog[i].session.customer_email # None =>
                      Did(statusLog[i], "follow_up")
               /\ Did(statusLog[i], "summary")
               /\ statusLog[i].removed
               /\ statusLog[i].response = "ok"

\* the place of an action in the order calendar, caller, operator, store
Rank(action) ==
    CASE action = "calendar" -> 1
      [] action = "follow_up" -> 2
      [] action = "summary" -> 3
      [] action = "remove" -> 4
      [] OTHER -> 0

\* C32: in the finalization of a call that is not flagged failed the
\* calendar write comes before the follow-up to the caller, the follow-up
\* before the summary to the operator, and the summary before the session
\* is removed.
C32_FinalizationOrder ==
    \A i \in 1..Len(statusLog) :
        Finalized(statusLog[i]) =>
            \A j, k \in 1..Len(statusLog[i].actions) :
                j < k => Rank(statusLog[i].actions[j])
                             < Rank(statusLog[i].actions[k])

\* a finalization that made all four: write, follow-up, summary, removal
C32_Witness ==
    \E i \in 1..Len(statusLog) :
        /\ Finalized(statusLog[i])
        /\ statusLog[i].actions = <<"calendar", "follow_up", "summary", "remove">>

\* C33: the finalization of a completed call that is not flagged failed
\* sends the follow-up to the caller exactly when an email is stored, and
\* the summary to the operator exactly once, with or without email or slot.
C33_FollowUpIffEmail ==
    \A i \in 1..Len(statusLog) :
        Finalized(statusLog[i]) =>
            /\ Did(statusLog[i], "follow_up")
                   <=> statusLog[i].session.customer_email # None
            /\ Cardinality({k \in 1..Len(statusLog[i].actions) :
                               statusLog[i].actions[k] = "summary"}) = 1

\* C34: for a session flagged failed the completed webhook writes nothing
\* to the calendar, sends nothing to the caller, and alerts the operator.
C34_FailedCallAlertsOperator ==
    \A i \in 1..Len(statusLog) :
        statusLog[i].branch = "failed" =>
            /\ ~Did(statusLog[i], "calendar")
            /\ statusLog[i].calendar = "-"
            /\ ~Did(statusLog[i], "follow_up")
            /\ Did(statusLog[i], "alert")

\* both loops of the handler run on two open sockets for a call whose
\* identifier the start event has given
BridgeActive ==
    /\ hpc = "relay"
    /\ call_sid # None
    /\ inPc # "done"
    /\ outPc # "done"
    /\ twilio_ws = "open"
    /\ openai_ws = "open"

\* C35: while the bridge of a call is active the store holds the session
\* of that call.
C35_SessionLivesWithBridge == BridgeActive => HasSession(call_sid)

\* the stream of the call has lasted MAX_CALL_DURATION seconds or more
CeilingReached ==
    stream_start_time # NoTime /\ now - stream_start_time >= MAX_CALL_DURATION

\* C36: once the call has lasted MAX_CALL_DURATION it is ended: from then
\* on neither loop forwards a frame, whatever arrives on the two sockets.
C36_CeilingEndsCall ==
    [][CeilingReached => (toOpenai' = toOpenai /\ toTwilio' = toTwilio)]_vars

\* C37: the step in which the outbound loop meets an unrecoverable backend
\* failure (it sets openai_connected to False) sends the apology to the
\* telephony side: something more has been sent there when it ends.
C37_FailureSendsApology ==
    [][(openai_connected /\ ~openai_connected')
           => Len(toTwilio') > Len(toTwilio)]_vars

\* Forwarded audio frames whose mark has not been acknowledged to the
\* handler: marks the telephony side still holds, and mark events it has
\* sent that the inbound loop has not read yet.
Unacknowledged ==
    twMarks + Cardinality({i \in DOMAIN twilioInbox :
                               twilioInbox[i].event = "mark"})

\* C38: in every state the mark queue is non-empty exactly when some
\* forwarded audio frame has not been acknowledged yet.
C38_MarkQueueExact == (mark_queue > 0) <=> (Unacknowledged > 0)

Truncates == {i \in DOMAIN toOpenai :
                  toOpenai[i].type = "conversation.item.truncate"}

\* C39: every truncate carries the time elapsed since the true start of its
\* item, the forwarding of the item's first audio frame: of two truncates
\* of one item the later, measured from the same start on a media clock
\* that does not run backwards, never carries less than the earlier.
C39_TruncateFromTrueStart ==
    \A i \in Truncates : \A j \in Truncates :
        (i < j /\ toOpenai[i].item = toOpenai[j].item)
            => toOpenai[j].arg >= toOpenai[i].arg

\* ------------------------------------------------- several calls in progress
CallSids == {"CA1", "CA2"}
CallerNumbers == {"+15550100", "+15550101"}

\* SESSIONS[call_sid] as handle_incoming_call stores it, with the time the
\* call started.
StartedSession(from, start) ==
    [caller_phone |-> from, call_start_time |-> start]

\* handle_incoming_call for one more call.  call_start_time is
\* datetime.now(): two webhooks never read the same instant.
IncomingCallOf(sid, from) ==
    /\ sid \notin DOMAIN SESSIONS
    /\ \A s \in DOMAIN SESSIONS : SESSIONS[s].call_start_time # now
    /\ SESSIONS' = (sid :> StartedSession(from, now)) @@ SESSIONS
    /\ UNCHANGED <<calendarEvents, smsCount, statusLog, apiLog>>
    /\ UNCHANGED handlerVars
    /\ UNCHANGED socketVars
    /\ UNCHANGED <<bargeVars, slotVars, extractVars>>

\* status_callback, its last lines: del SESSIONS[call_sid].
EndCallOf(sid) ==
    /\ sid \in DOMAIN SESSIONS
    /\ SESSIONS' = [s \in DOMAIN SESSIONS \ {sid} |-> SESSIONS[s]]
    /\ UNCHANGED <<calendarEvents, smsCount, statusLog, apiLog>>
    /\ UNCHANGED handlerVars
    /\ UNCHANGED socketVars
    /\ UNCHANGED <<bargeVars, slotVars, extractVars>>

TrialLinkSent(via, sid, to) ==
    [via |-> via, call |-> sid, own |-> SESSIONS[sid].caller_phone, to |-> to]

\* The send_trial_link branch of the tool dispatch in the media handler of
\* call sid: caller_phone = session.get('caller_phone', '') of the
\* handler's own session.
ToolSendTrialLink(sid) ==
    /\ sid \in DOMAIN SESSIONS
    /\ Len(apiLog) < MaxApi
    /\ apiLog' = Append(apiLog,
           TrialLinkSent("tool", sid, SESSIONS[sid].caller_phone))
    /\ smsCount' = smsCount + 1
    /\ UNCHANGED <<SESSIONS, calendarEvents, statusLog>>
    /\ UNCHANGED handlerVars
    /\ UNCHANGED socketVars
    /\ UNCHANGED <<bargeVars, slotVars, extractVars>>

\* for sid, session in SESSIONS.items(): the caller_phone of the session
\* with the greatest call_start_time.
LatestCallerPhone ==
    LET latest == CHOOSE s \in DOMAIN SESSIONS :
                      \A o \in DOMAIN SESSIONS :
                          SESSIONS[o].call_start_time
                              <= SESSIONS[s].call_start_time
    IN SESSIONS[latest].caller_phone

\* POST /api/sms/send-trial-link, whole handler, requested by the agent
\* that serves call sid.  The handler does not read the request.
ApiSendTrialLink(sid) ==
    /\ sid \in DOMAIN SESSIONS
    /\ Len(apiLog) < MaxApi
    /\ apiLog' = Append(apiLog,
           TrialLinkSent("endpoint", sid, LatestCallerPhone))
    /\ smsCount' = smsCount + 1
    /\ UNCHANGED <<SESSIONS, calendarEvents, statusLog>>
    /\ UNCHANGED handlerVars
    /\ UNCHANGED socketVars
    /\ UNCHANGED <<bargeVars, slotVars, extractVars>>

NextIsolation ==
    \/ \E sid \in CallSids, from \in CallerNumbers : IncomingCallOf(sid, from)
    \/ \E sid \in CallSids : EndCallOf(sid)
    \/ \E sid \in CallSids : ToolSendTrialLink(sid)
    \/ \E sid \in CallSids : ApiSendTrialLink(sid)
    \/ Tick

SpecIsolation == Init /\ [][NextIsolation]_vars

\* C40: a trial link requested on behalf of one call, by its tool call or
\* through the endpoint, is texted to that call's own caller number.
C40_CallsIsolated ==
    \A i \in DOMAIN apiLog : apiLog[i].to = apiLog[i].own
====
